---------------------------- MODULE Spec2Model ----------------------------
(***************************************************************************)
(* A model of plox, a tree-walking interpreter for Lox written in Python.  *)
(*                                                                         *)
(* The pipeline of Application.run is modelled stage by stage:             *)
(*   tokens --Parser--> statements --Resolver--> side table --Interpreter  *)
(* The scanner's output (a token list ending in EOF, and whether it called *)
(* the error callback) is the input of a run.                              *)
(*                                                                         *)
(* Python objects are records.  A raised Python exception is a field of    *)
(* the record a method returns ("exc"/"sig"); every caller tests it the    *)
(* way the interpreter unwinds.  Object identity (AST nodes, environments, *)
(* instances, callables) is an explicit id.                                *)
(***************************************************************************)
EXTENDS Integers, Sequences, FiniteSets, TLC

VARIABLES
    parser,   \* the Parser object of the parser specification (tokens, _current, ...)
    stmts,    \* Parser.parse's local list `statements`; in the resolver
              \* specifications what the last operation was given
    ppc,      \* position in Parser.parse: "parse" | "done" | "hung" ("idle": unused);
              \* in the resolver specifications the last operation
    app,      \* the Application object with its Interpreter (had_error, ...)
    resolver  \* the Resolver object of the resolver specifications (_scopes, ...)

vars == <<parser, stmts, ppc, app, resolver>>

\* a local name for a value: Let(v, LAMBDA x : e) is e with x standing for v
Let(v, K(_)) == K(v)

(***************************************************************************)
(* Runtime values (interpreting.py: Python objects held by Lox variables). *)
(* Each runtime type has its own record shape.                             *)
(***************************************************************************)
NilV == [t |-> "nil"]
BoolV(b) == [t |-> "bool", b |-> b]
NumV(n) == [t |-> "num", n |-> n]
StrV(s) == [t |-> "str", s |-> s]

(***************************************************************************)
(* Tokens (tokens.Token: type, lexeme, literal, line).                     *)
(***************************************************************************)
Token(type, lexeme, literal, line) ==
    [type |-> type, lexeme |-> lexeme, literal |-> literal, line |-> line]

\* the absent AST child / the None a failed declaration yields
NoneNode == [kind |-> "None"]

(***************************************************************************)
(* Scanner (scanning.py).  A source text is given split into its lexemes;  *)
(* the scanner classifies each lexeme as _scan_token does.  All lexemes of *)
(* a source are on line 1.                                                 *)
(***************************************************************************)
KEYWORDS ==
    [w \in {"and", "class", "else", "false", "for", "fun", "if", "nil", "or",
            "print", "return", "super", "this", "true", "var", "while"} |->
        CASE w = "and" -> "AND" [] w = "class" -> "CLASS" [] w = "else" -> "ELSE"
          [] w = "false" -> "FALSE" [] w = "for" -> "FOR" [] w = "fun" -> "FUN"
          [] w = "if" -> "IF" [] w = "nil" -> "NIL" [] w = "or" -> "OR"
          [] w = "print" -> "PRINT" [] w = "return" -> "RETURN"
          [] w = "super" -> "SUPER" [] w = "this" -> "THIS" [] w = "true" -> "TRUE"
          [] w = "var" -> "VAR" [] w = "while" -> "WHILE"]

Punctuation ==
    [w \in {"(", ")", "{", "}", ",", ".", "-", "+", ";", "*", "!", "!=", "=",
            "==", "<", "<=", ">", ">=", "/"} |->
        CASE w = "(" -> "LEFT_PAREN" [] w = ")" -> "RIGHT_PAREN"
          [] w = "{" -> "LEFT_BRACE" [] w = "}" -> "RIGHT_BRACE"
          [] w = "," -> "COMMA" [] w = "." -> "DOT" [] w = "-" -> "MINUS"
          [] w = "+" -> "PLUS" [] w = ";" -> "SEMICOLON" [] w = "*" -> "STAR"
          [] w = "!" -> "BANG" [] w = "!=" -> "BANG_EQUAL" [] w = "=" -> "EQUAL"
          [] w = "==" -> "EQUAL_EQUAL" [] w = "<" -> "LESS"
          [] w = "<=" -> "LESS_EQUAL" [] w = ">" -> "GREATER"
          [] w = ">=" -> "GREATER_EQUAL" [] w = "/" -> "SLASH"]

\* the number lexemes of the sources, with float(lexeme)
NumberLexemes ==
    [w \in {"0", "1", "2", "3"} |->
        CASE w = "0" -> 0 [] w = "1" -> 1 [] w = "2" -> 2 [] w = "3" -> 3]

\* the string lexemes of the sources (written 'text'), with the text between the quotes
StringLexemes ==
    [w \in {"''", "'a'", "'b'", "'global'", "'local'"} |->
        CASE w = "''" -> "" [] w = "'a'" -> "a" [] w = "'b'" -> "b"
          [] w = "'global'" -> "global" [] w = "'local'" -> "local"]

\* lexemes _scan_token rejects: a character of no token, a string never closed
UnexpectedCharacters == {"@", "#"}
UnterminatedStrings == {"'open"}

Scanner_new(source) == [source |-> source, tokens |-> <<>>, errors |-> <<>>, line |-> 1]

Scanner_add_token(sc, type, text, literal) ==
    [sc EXCEPT !.tokens = Append(@, Token(type, text, literal, sc.line))]

Scanner_scan_token(sc, c) ==
    IF c \in DOMAIN Punctuation
    THEN Scanner_add_token(sc, Punctuation[c], c, NilV)
    ELSE IF c \in DOMAIN StringLexemes
    THEN Scanner_add_token(sc, "STRING", c, StrV(StringLexemes[c]))
    ELSE IF c \in UnterminatedStrings
    THEN [sc EXCEPT !.errors = Append(@, [line |-> sc.line,
                                          message |-> "Unterminated string."])]
    ELSE IF c \in DOMAIN NumberLexemes
    THEN Scanner_add_token(sc, "NUMBER", c, NumV(NumberLexemes[c]))
    ELSE IF c \in UnexpectedCharacters
    THEN [sc EXCEPT !.errors = Append(@, [line |-> sc.line,
                                          message |-> "Unexpected character."])]
    ELSE Scanner_add_token(sc, IF c \in DOMAIN KEYWORDS THEN KEYWORDS[c]
                                                       ELSE "IDENTIFIER", c, NilV)

RECURSIVE Scanner_scan_loop(_, _)
Scanner_scan_loop(sc, i) ==
    IF i > Len(sc.source) THEN sc
    ELSE Scanner_scan_loop(Scanner_scan_token(sc, sc.source[i]), i + 1)

Scanner_scan_tokens(sc) ==
    Scanner_add_token(Scanner_scan_loop(sc, 1), "EOF", "", NilV)

(***************************************************************************)
(* Parser (parsing.py).  A parser state p is the Parser object plus the    *)
(* outcome of the method that returned it:                                 *)
(*   tokens, current  Parser._tokens, Parser._current                      *)
(*   obj              identity namespace of the nodes this parser creates  *)
(*   errors           calls made to the error callback, in order           *)
(*   out              lines written to stdout                              *)
(*   exc              a ParseError is propagating                          *)
(*   diverged         the method does not return (a loop that repeats      *)
(*                    without changing _current)                           *)
(*   ok               result of _match                                     *)
(*   node             the method's return value                            *)
(***************************************************************************)
Parser_new(tokens, obj) ==
    [tokens |-> tokens, current |-> 0, obj |-> obj, errors |-> <<>>,
     out |-> <<>>, exc |-> FALSE, diverged |-> FALSE, ok |-> FALSE,
     node |-> NoneNode]

Ret(p, node) == [p EXCEPT !.node = node]
Halted(p) == p.exc \/ p.diverged

Parser_peek(p) == p.tokens[p.current + 1]

Parser_previous(p) ==
    IF p.current = 0 THEN p.tokens[Len(p.tokens)] ELSE p.tokens[p.current]

Parser_is_at_end(p) == Parser_peek(p).type = "EOF"

Parser_advance(p) ==
    IF ~Parser_is_at_end(p) THEN [p EXCEPT !.current = @ + 1] ELSE p

Parser_check(p, type) ==
    IF Parser_is_at_end(p) THEN FALSE ELSE Parser_peek(p).type = type

Parser_match(p, types) ==
    IF \E type \in types : Parser_check(p, type)
    THEN [Parser_advance(p) EXCEPT !.ok = TRUE]
    ELSE [p EXCEPT !.ok = FALSE]

\* _error reports and returns a ParseError object; the caller may raise it
Parser_error(p, token, message) ==
    [p EXCEPT !.errors = Append(@, [token |-> token, message |-> message])]

Raise(p) == [p EXCEPT !.exc = TRUE]

Parser_consume(p, type, message) ==
    IF Parser_check(p, type)
    THEN Parser_advance(p)
    ELSE Raise(Parser_error(p, Parser_peek(p), message))

\* _synchronize only prints; it discards no token
Parser_synchronize(p) == [p EXCEPT !.out = Append(@, "SYNC")]


\* parsing.py:225 and parsing.py:360, the cap on parameters and arguments
MaxArity == 255

RECURSIVE Parser_rule(_, _)
RECURSIVE Parser_declaration(_)
RECURSIVE Parser_statement(_)
RECURSIVE Parser_function(_, _)
RECURSIVE Parser_block(_)
RECURSIVE Parser_block_loop(_, _)
RECURSIVE Parser_expression(_)
RECURSIVE Parser_assignment(_)
RECURSIVE Parser_or_loop(_)
RECURSIVE Parser_and(_)
RECURSIVE Parser_and_loop(_)
RECURSIVE Parser_equality(_)
RECURSIVE Parser_equality_loop(_)
RECURSIVE Parser_comparison(_)
RECURSIVE Parser_comparison_loop(_)
RECURSIVE Parser_term(_)
RECURSIVE Parser_term_loop(_)
RECURSIVE Parser_factor(_)
RECURSIVE Parser_factor_loop(_)
RECURSIVE Parser_unary(_)
RECURSIVE Parser_call(_)
RECURSIVE Parser_call_loop(_, _)
RECURSIVE Parser_finish_call(_, _)
RECURSIVE Parser_arguments_loop(_, _)
RECURSIVE Parser_primary(_)
RECURSIVE Parser_parameters_loop(_, _)

Parser_primary(p) ==
    CASE Parser_check(p, "FALSE") ->
             Ret(Parser_match(p, {"FALSE"}), [kind |-> "Literal", value |-> BoolV(FALSE)])
      [] Parser_check(p, "TRUE") ->
             Ret(Parser_match(p, {"TRUE"}), [kind |-> "Literal", value |-> BoolV(TRUE)])
      [] Parser_check(p, "NIL") ->
             Ret(Parser_match(p, {"NIL"}), [kind |-> "Literal", value |-> NilV])
      [] Parser_check(p, "NUMBER") \/ Parser_check(p, "STRING") ->
             Let(Parser_match(p, {"NUMBER", "STRING"}), LAMBDA m :
                 Ret(m, [kind |-> "Literal", value |-> Parser_previous(m).literal]))
      [] Parser_check(p, "SUPER") ->
             Let(Parser_match(p, {"SUPER"}), LAMBDA m :
             Let(Parser_consume(m, "DOT", "Expect '.' after 'super'."), LAMBDA d :
             Let(Parser_consume(d, "IDENTIFIER", "Expect superclass method name."),
                 LAMBDA n :
                 IF d.exc THEN d
                 ELSE IF n.exc THEN n
                 ELSE Ret(n, [kind |-> "Super", keyword |-> Parser_previous(m),
                              method |-> Parser_previous(n),
                              id |-> <<p.obj, m.current, "Super">>]))))
      [] Parser_check(p, "LEFT_PAREN") ->
             Let(Parser_rule("expression", Parser_match(p, {"LEFT_PAREN"})), LAMBDA e :
                 IF e.exc \/ e.diverged THEN e
                 ELSE Let(Parser_consume(e, "RIGHT_PAREN", "Expect ')' after expression"),
                          LAMBDA c :
                          IF c.exc THEN c
                          ELSE Ret(c, [kind |-> "Grouping", expression |-> e.node])))
      [] Parser_check(p, "THIS") ->
             Let(Parser_match(p, {"THIS"}), LAMBDA m :
                 Ret(m, [kind |-> "This", keyword |-> Parser_previous(m),
                         id |-> <<p.obj, m.current, "This">>]))
      [] Parser_check(p, "IDENTIFIER") ->
             Let(Parser_match(p, {"IDENTIFIER"}), LAMBDA m :
                 Ret(m, [kind |-> "Variable", name |-> Parser_previous(m),
                         id |-> <<p.obj, m.current, "Variable">>]))
      [] OTHER -> Raise(Parser_error(p, Parser_peek(p), "Expect expression."))

\* the body of the while loop of _finish_call with > in place of >=
Parser_arguments_body_above_cap(m, arguments) ==
    Let(Parser_rule("expression",
            IF Len(arguments) > MaxArity
            THEN Parser_error(m, Parser_peek(m), "Can't have more than 255 arguments.")
            ELSE m), LAMBDA e :
        IF e.exc \/ e.diverged THEN e ELSE Ret(e, Append(arguments, e.node)))

\* the body of the while loop of _finish_call, after _match(COMMA) gave m
Parser_arguments_body(m, arguments) ==
    Let(Parser_rule("expression",
            IF Len(arguments) >= MaxArity
            THEN Parser_error(m, Parser_peek(m), "Can't have more than 255 arguments.")
            ELSE m), LAMBDA e :
        IF e.exc \/ e.diverged THEN e ELSE Ret(e, Append(arguments, e.node)))

Parser_arguments_loop(p, arguments) ==
    Let(Parser_match(p, {"COMMA"}), LAMBDA m :
        IF ~m.ok THEN Ret(m, arguments)
        ELSE Let(Parser_arguments_body(m, arguments), LAMBDA e :
                 IF e.exc \/ e.diverged THEN e
                 ELSE Parser_arguments_loop(e, e.node)))

\* arguments.append(self._expression()), the statement before the while loop
Parser_arguments_first(p) ==
    Let(Parser_rule("expression", p), LAMBDA first :
        IF first.exc \/ first.diverged THEN first ELSE Ret(first, <<first.node>>))

\* _finish_call from the _consume after the loop on
Parser_finish_call_end(p, callee, arguments) ==
    Let(Parser_consume(p, "RIGHT_PAREN", "Expect ')' after arguments."), LAMBDA c :
        IF c.exc THEN c
        ELSE Ret(c, [kind |-> "Call", callee |-> callee,
                     paren |-> Parser_previous(c), arguments |-> arguments]))

Parser_finish_call(p, callee) ==
    Let(IF Parser_check(p, "RIGHT_PAREN") THEN Ret(p, <<>>)
        ELSE Let(Parser_arguments_first(p), LAMBDA first :
                 IF first.exc \/ first.diverged THEN first
                 ELSE Parser_arguments_loop(first, first.node)), LAMBDA args :
        IF args.exc \/ args.diverged THEN args
        ELSE Parser_finish_call_end(args, callee, args.node))

Parser_call_loop(p, expression) ==
    IF Parser_match(p, {"LEFT_PAREN"}).ok
    THEN Let(Parser_finish_call(Parser_match(p, {"LEFT_PAREN"}), expression), LAMBDA f :
             IF f.exc \/ f.diverged THEN f ELSE Parser_call_loop(f, f.node))
    ELSE IF Parser_match(p, {"DOT"}).ok
    THEN Let(Parser_consume(Parser_match(p, {"DOT"}), "IDENTIFIER",
                            "Expect property name after '.'."), LAMBDA n :
             IF n.exc THEN n
             ELSE Parser_call_loop(n, [kind |-> "Get", object_ |-> expression,
                                       name |-> Parser_previous(n)]))
    ELSE Ret(p, expression)

Parser_call(p) ==
    Let(Parser_primary(p), LAMBDA e :
        IF e.exc \/ e.diverged THEN e ELSE Parser_call_loop(e, e.node))

Parser_unary(p) ==
    IF Parser_match(p, {"BANG", "MINUS"}).ok
    THEN Let(Parser_match(p, {"BANG", "MINUS"}), LAMBDA m :
         Let(Parser_rule("unary", m), LAMBDA right :
             IF Halted(right) THEN right
             ELSE Ret(right, [kind |-> "Unary", operator |-> Parser_previous(m),
                              right |-> right.node])))
    ELSE Parser_call(p)

\* the while loop of _factor, entered with the parser as the first operand's
\* parse left it (its node is the expression so far)
Parser_factor_loop(e) ==
    IF e.exc \/ e.diverged THEN e
    ELSE Let(Parser_match(e, {"SLASH", "STAR"}), LAMBDA m :
             IF ~m.ok THEN m
             ELSE Let(Parser_rule("unary", m), LAMBDA right :
                      IF Halted(right) THEN right
                      ELSE Parser_factor_loop(
                               Ret(right, [kind |-> "Binary", left |-> e.node,
                                           operator |-> Parser_previous(m),
                                           right |-> right.node]))))

Parser_factor(p) == Parser_factor_loop(Parser_unary(p))

\* the while loop of _term, entered with the parser as the first operand's
\* parse left it (its node is the expression so far)
Parser_term_loop(e) ==
    IF e.exc \/ e.diverged THEN e
    ELSE Let(Parser_match(e, {"MINUS", "PLUS"}), LAMBDA m :
             IF ~m.ok THEN m
             ELSE Let(Parser_rule("factor", m), LAMBDA right :
                      IF Halted(right) THEN right
                      ELSE Parser_term_loop(
                               Ret(right, [kind |-> "Binary", left |-> e.node,
                                           operator |-> Parser_previous(m),
                                           right |-> right.node]))))

Parser_term(p) == Parser_term_loop(Parser_factor(p))

\* the while loop of _comparison, entered with the parser as the first operand's
\* parse left it (its node is the expression so far)
Parser_comparison_loop(e) ==
    IF e.exc \/ e.diverged THEN e
    ELSE Let(Parser_match(e, {"GREATER", "GREATER_EQUAL", "LESS", "LESS_EQUAL"}), LAMBDA m :
             IF ~m.ok THEN m
             ELSE Let(Parser_rule("term", m), LAMBDA right :
                      IF Halted(right) THEN right
                      ELSE Parser_comparison_loop(
                               Ret(right, [kind |-> "Binary", left |-> e.node,
                                           operator |-> Parser_previous(m),
                                           right |-> right.node]))))

Parser_comparison(p) == Parser_comparison_loop(Parser_term(p))

\* the while loop of _equality, entered with the parser as the first operand's
\* parse left it (its node is the expression so far)
Parser_equality_loop(e) ==
    IF e.exc \/ e.diverged THEN e
    ELSE Let(Parser_match(e, {"BANG_EQUAL", "EQUAL_EQUAL"}), LAMBDA m :
             IF ~m.ok THEN m
             ELSE Let(Parser_rule("comparison", m), LAMBDA right :
                      IF Halted(right) THEN right
                      ELSE Parser_equality_loop(
                               Ret(right, [kind |-> "Binary", left |-> e.node,
                                           operator |-> Parser_previous(m),
                                           right |-> right.node]))))

Parser_equality(p) == Parser_equality_loop(Parser_comparison(p))

\* the while loop of _and, entered with the parser as the first operand's
\* parse left it (its node is the expression so far)
Parser_and_loop(e) ==
    IF e.exc \/ e.diverged THEN e
    ELSE Let(Parser_match(e, {"AND"}), LAMBDA m :
             IF ~m.ok THEN m
             ELSE Let(Parser_rule("equality", m), LAMBDA right :
                      IF Halted(right) THEN right
                      ELSE Parser_and_loop(
                               Ret(right, [kind |-> "Logical", left |-> e.node,
                                           operator |-> Parser_previous(m),
                                           right |-> right.node]))))

Parser_and(p) == Parser_and_loop(Parser_equality(p))

\* the while loop of _or, entered with the parser as the first operand's
\* parse left it (its node is the expression so far)
Parser_or_loop(e) ==
    IF e.exc \/ e.diverged THEN e
    ELSE Let(Parser_match(e, {"OR"}), LAMBDA m :
             IF ~m.ok THEN m
             ELSE Let(Parser_rule("and", m), LAMBDA right :
                      IF Halted(right) THEN right
                      ELSE Parser_or_loop(
                               Ret(right, [kind |-> "Logical", left |-> e.node,
                                           operator |-> Parser_previous(m),
                                           right |-> right.node]))))

Parser_or(p) == Parser_or_loop(Parser_and(p))

Parser_assignment(p) ==
    Let(Parser_or(p), LAMBDA expression :
        IF expression.exc \/ expression.diverged THEN expression
        ELSE Let(Parser_match(expression, {"EQUAL"}), LAMBDA m :
             IF ~m.ok THEN m
             ELSE Let(Parser_rule("assignment", m), LAMBDA value :
                  IF Halted(value) THEN value
                  ELSE IF expression.node.kind = "Variable"
                  THEN Ret(value, [kind |-> "Assign", name |-> expression.node.name,
                                   value |-> value.node,
                                   id |-> <<p.obj, expression.node.id[2], "Assign">>])
                  ELSE IF expression.node.kind = "Get"
                  THEN Ret(value, [kind |-> "Set",
                                   object_ |-> expression.node.object_,
                                   name |-> expression.node.name,
                                   value |-> value.node])
                  ELSE Ret(Parser_error(value, Parser_previous(m),
                                        "Invalid assignment target."),
                           expression.node))))

Parser_expression(p) == Parser_assignment(p)

Parser_expression_statement(p) ==
    Let(Parser_rule("expression", p), LAMBDA value :
    Let(Parser_consume(value, "SEMICOLON", "Expect ';' after expression."), LAMBDA c :
        IF Halted(value) THEN value
        ELSE IF c.exc THEN c
        ELSE Ret(c, [kind |-> "Expression", expression |-> value.node])))

Parser_var_declaration(p) ==
    Let(Parser_consume(p, "IDENTIFIER", "Expect variable name."), LAMBDA name :
    Let(Parser_match(name, {"EQUAL"}), LAMBDA m :
    Let(IF m.ok THEN Parser_rule("expression", m) ELSE Ret(m, NoneNode), LAMBDA initializer :
    Let(Parser_consume(initializer, "SEMICOLON",
                       "Expect ';' after variable declaration."), LAMBDA c :
        IF name.exc THEN name
        ELSE IF Halted(initializer) THEN initializer
        ELSE IF c.exc THEN c
        ELSE Ret(c, [kind |-> "Var", name |-> Parser_previous(name),
                     initializer |-> initializer.node])))))

Parser_if_statement(p) ==
    Let(Parser_consume(p, "LEFT_PAREN", "Expect '(' after 'if'."), LAMBDA l :
    Let(Parser_rule("expression", l), LAMBDA condition :
    Let(Parser_consume(condition, "RIGHT_PAREN", "Expect ')' after if condition."), LAMBDA r :
    Let(Parser_rule("statement", r), LAMBDA then_branch :
    Let(Parser_match(then_branch, {"ELSE"}), LAMBDA m :
    Let(IF m.ok THEN Parser_rule("statement", m) ELSE Ret(m, NoneNode), LAMBDA else_branch :
        IF l.exc THEN l
        ELSE IF Halted(condition) THEN condition
        ELSE IF r.exc THEN r
        ELSE IF Halted(then_branch) THEN then_branch
        ELSE IF Halted(else_branch) THEN else_branch
        ELSE Ret(else_branch, [kind |-> "If", condition |-> condition.node,
                               then_branch |-> then_branch.node,
                               else_branch |-> else_branch.node])))))))

Parser_print_statement(p) ==
    Let(Parser_rule("expression", p), LAMBDA value :
    Let(Parser_consume(value, "SEMICOLON", "Expect ';' after value."), LAMBDA c :
        IF Halted(value) THEN value
        ELSE IF c.exc THEN c
        ELSE Ret(c, [kind |-> "Print", expression |-> value.node])))

Parser_return_statement(p) ==
    Let(Parser_previous(p), LAMBDA keyword :
    Let(IF ~Parser_check(p, "SEMICOLON")
        THEN Parser_rule("expression", p) ELSE Ret(p, NoneNode), LAMBDA value :
    Let(Parser_consume(value, "SEMICOLON", "Expect ';' after return value."), LAMBDA c :
        IF Halted(value) THEN value
        ELSE IF c.exc THEN c
        ELSE Ret(c, [kind |-> "Return", keyword |-> keyword, value |-> value.node]))))

Parser_while_statement(p) ==
    Let(Parser_consume(p, "LEFT_PAREN", "Expect '(' after 'while'."), LAMBDA l :
    Let(Parser_rule("expression", l), LAMBDA condition :
    Let(Parser_consume(condition, "RIGHT_PAREN", "Expect ')' after condition."), LAMBDA r :
    Let(Parser_rule("statement", r), LAMBDA body :
        IF l.exc THEN l
        ELSE IF Halted(condition) THEN condition
        ELSE IF r.exc THEN r
        ELSE IF Halted(body) THEN body
        ELSE Ret(body, [kind |-> "While", condition |-> condition.node,
                        body |-> body.node])))))

\* _for_statement that puts the increment ahead of the body
Parser_for_statement_increment_first(p) ==
    Let(Parser_consume(p, "LEFT_PAREN", "Expect '(' after 'for'."), LAMBDA l :
    Let(
        IF Parser_match(l, {"SEMICOLON"}).ok
        THEN Ret(Parser_match(l, {"SEMICOLON"}), NoneNode)
        ELSE IF Parser_match(l, {"VAR"}).ok
        THEN Parser_var_declaration(Parser_match(l, {"VAR"}))
        ELSE Parser_expression_statement(l), LAMBDA initializer :
    Let(IF ~Parser_check(initializer, "SEMICOLON")
        THEN Parser_rule("expression", initializer)
        ELSE Ret(initializer, NoneNode), LAMBDA condition :
    Let(Parser_consume(condition, "SEMICOLON", "Expect ';' after loop condition."), LAMBDA s :
    Let(IF ~Parser_check(s, "RIGHT_PAREN")
        THEN Parser_rule("expression", s) ELSE Ret(s, NoneNode), LAMBDA increment :
    Let(Parser_consume(increment, "RIGHT_PAREN", "Expect ')' after for clauses."), LAMBDA r :
    Let(Parser_rule("statement", r), LAMBDA body :
    Let(IF increment.node.kind # "None"
        THEN [kind |-> "Block", statements |->
                 <<[kind |-> "Expression", expression |-> increment.node],
                   body.node>>]
        ELSE body.node, LAMBDA body1 :
    Let(IF condition.node.kind = "None"
        THEN [kind |-> "Literal", value |-> BoolV(TRUE)]
        ELSE condition.node, LAMBDA condition1 :
    Let([kind |-> "While", condition |-> condition1, body |-> body1], LAMBDA body2 :
    Let(IF initializer.node.kind # "None"
        THEN [kind |-> "Block", statements |-> <<initializer.node, body2>>]
        ELSE body2, LAMBDA body3 :
        IF l.exc THEN l
        ELSE IF Halted(initializer) THEN initializer
        ELSE IF Halted(condition) THEN condition
        ELSE IF s.exc THEN s
        ELSE IF Halted(increment) THEN increment
        ELSE IF r.exc THEN r
        ELSE IF Halted(body) THEN body
        ELSE Ret(body, body3))))))))))))

Parser_for_statement(p) ==
    Let(Parser_consume(p, "LEFT_PAREN", "Expect '(' after 'for'."), LAMBDA l :
    Let(
        IF Parser_match(l, {"SEMICOLON"}).ok
        THEN Ret(Parser_match(l, {"SEMICOLON"}), NoneNode)
        ELSE IF Parser_match(l, {"VAR"}).ok
        THEN Parser_var_declaration(Parser_match(l, {"VAR"}))
        ELSE Parser_expression_statement(l), LAMBDA initializer :
    Let(IF ~Parser_check(initializer, "SEMICOLON")
        THEN Parser_rule("expression", initializer)
        ELSE Ret(initializer, NoneNode), LAMBDA condition :
    Let(Parser_consume(condition, "SEMICOLON", "Expect ';' after loop condition."), LAMBDA s :
    Let(IF ~Parser_check(s, "RIGHT_PAREN")
        THEN Parser_rule("expression", s) ELSE Ret(s, NoneNode), LAMBDA increment :
    Let(Parser_consume(increment, "RIGHT_PAREN", "Expect ')' after for clauses."), LAMBDA r :
    Let(Parser_rule("statement", r), LAMBDA body :
    Let(IF increment.node.kind # "None"
        THEN [kind |-> "Block", statements |->
                 <<body.node, [kind |-> "Expression",
                               expression |-> increment.node]>>]
        ELSE body.node, LAMBDA body1 :
    Let(IF condition.node.kind = "None"
        THEN [kind |-> "Literal", value |-> BoolV(TRUE)]
        ELSE condition.node, LAMBDA condition1 :
    Let([kind |-> "While", condition |-> condition1, body |-> body1], LAMBDA body2 :
    Let(IF initializer.node.kind # "None"
        THEN [kind |-> "Block", statements |-> <<initializer.node, body2>>]
        ELSE body2, LAMBDA body3 :
        IF l.exc THEN l
        ELSE IF Halted(initializer) THEN initializer
        ELSE IF Halted(condition) THEN condition
        ELSE IF s.exc THEN s
        ELSE IF Halted(increment) THEN increment
        ELSE IF r.exc THEN r
        ELSE IF Halted(body) THEN body
        ELSE Ret(body, body3))))))))))))

\* the FOREACH branch (parsing.py:68) is left out: no input holds a FOREACH token
\* if self._match(X): return ... in turn; _match(X) succeeds iff _check(X)
Parser_statement(p) ==
    CASE Parser_check(p, "FOR") -> Parser_for_statement(Parser_match(p, {"FOR"}))
      [] Parser_check(p, "IF") -> Parser_if_statement(Parser_match(p, {"IF"}))
      [] Parser_check(p, "PRINT") -> Parser_print_statement(Parser_match(p, {"PRINT"}))
      [] Parser_check(p, "RETURN") -> Parser_return_statement(Parser_match(p, {"RETURN"}))
      [] Parser_check(p, "WHILE") -> Parser_while_statement(Parser_match(p, {"WHILE"}))
      [] Parser_check(p, "LEFT_BRACE") ->
             Let(Parser_rule("block", Parser_match(p, {"LEFT_BRACE"})), LAMBDA b :
                 IF Halted(b) THEN b
                 ELSE Ret(b, [kind |-> "Block", statements |-> b.node]))
      [] OTHER -> Parser_expression_statement(p)

\* the loop of _block.  _declaration is a function of _tokens and _current
\* alone, so an iteration that leaves _current where it was repeats for ever.
Parser_block_loop(p, statements) ==
    IF ~Parser_check(p, "RIGHT_BRACE") /\ ~Parser_is_at_end(p)
    THEN Let(Parser_rule("declaration", p), LAMBDA d :
             IF d.diverged THEN d
             ELSE IF d.current = p.current THEN [d EXCEPT !.diverged = TRUE]
             ELSE Parser_block_loop(d, Append(statements, d.node)))
    ELSE Ret(p, statements)

Parser_block(p) ==
    Let(Parser_block_loop(p, <<>>), LAMBDA statements :
    Let(Parser_consume(statements, "RIGHT_BRACE", "Expect '}' after block."), LAMBDA c :
        IF Halted(statements) THEN statements
        ELSE IF c.exc THEN c
        ELSE Ret(c, statements.node)))

\* the body of the while loop of _function, after _match(COMMA) gave m
Parser_parameters_body(m, parameters) ==
    Let(IF Len(parameters) >= MaxArity
        THEN Parser_error(m, Parser_peek(m), "Can't have more than 255 parameters.")
        ELSE m, LAMBDA r :
    Let(Parser_consume(r, "IDENTIFIER", "Expect parameter name."), LAMBDA n :
        IF n.exc THEN n ELSE Ret(n, Append(parameters, Parser_previous(n)))))

Parser_parameters_loop(p, parameters) ==
    Let(Parser_match(p, {"COMMA"}), LAMBDA m :
        IF ~m.ok THEN Ret(m, parameters)
        ELSE Let(Parser_parameters_body(m, parameters), LAMBDA n :
                 IF n.exc THEN n ELSE Parser_parameters_loop(n, n.node)))

\* _function up to the while loop; ok tells whether the loop is entered
Parser_function_begin(p, kind) ==
    Let(Parser_consume(p, "IDENTIFIER", "Expect " \o kind \o " name."), LAMBDA name :
        IF name.exc THEN name
        ELSE Let(Parser_consume(name, "LEFT_PAREN",
                                "Expect '(' after " \o kind \o " name."), LAMBDA l :
                 IF l.exc THEN l
                 ELSE IF Parser_check(l, "RIGHT_PAREN")
                 THEN [Ret(l, <<>>) EXCEPT !.ok = FALSE]
                 ELSE Let(Parser_consume(l, "IDENTIFIER", "Expect parameter name."),
                          LAMBDA first :
                          IF first.exc THEN first
                          ELSE [Ret(first, <<Parser_previous(first)>>)
                                    EXCEPT !.ok = TRUE])))

\* _function from the _consume after the loop on
Parser_function_end(p, kind, name, parameters) ==
    Let(Parser_consume(p, "RIGHT_PAREN", "Expect ')' after parameters."), LAMBDA r :
        IF r.exc THEN r
        ELSE Let(Parser_consume(r, "LEFT_BRACE",
                                "Expect '{' before " \o kind \o " body."), LAMBDA b :
                 IF b.exc THEN b
                 ELSE Let(Parser_rule("block", b), LAMBDA body :
                          IF Halted(body) THEN body
                          ELSE Ret(body, [kind |-> "Function", name |-> name,
                                          params |-> parameters,
                                          body |-> body.node]))))

\* Parser_peek(p) is the token that _function consumes as the name
Parser_function(p, kind) ==
    Let(Parser_function_begin(p, kind), LAMBDA first :
        IF first.exc THEN first
        ELSE Let(IF first.ok THEN Parser_parameters_loop(first, first.node) ELSE first,
                 LAMBDA parameters :
                 IF parameters.exc THEN parameters
                 ELSE Parser_function_end(parameters, kind, Parser_peek(p),
                                          parameters.node)))

RECURSIVE Parser_methods_loop(_, _)
Parser_methods_loop(p, methods) ==
    IF ~Parser_check(p, "RIGHT_BRACE") /\ ~Parser_is_at_end(p)
    THEN Let(Parser_function(p, "method"), LAMBDA f :
             IF Halted(f) THEN f
             ELSE Parser_methods_loop(f, Append(methods, f.node)))
    ELSE Ret(p, methods)

Parser_class_declaration(p) ==
    Let(Parser_consume(p, "IDENTIFIER", "Expect class name."), LAMBDA name :
    Let(Parser_match(name, {"LESS"}), LAMBDA m :
    Let(IF m.ok
        THEN Parser_consume(m, "IDENTIFIER", "Expect superclass name.")
        ELSE m, LAMBDA sup :
    Let(IF m.ok
        THEN [kind |-> "Variable", name |-> Parser_previous(sup),
              id |-> <<p.obj, sup.current, "Variable">>]
        ELSE NoneNode, LAMBDA superclass :
    Let(Parser_consume(sup, "LEFT_BRACE", "Expect '{' before class body."), LAMBDA b :
    Let(Parser_methods_loop(b, <<>>), LAMBDA methods :
    Let(Parser_consume(methods, "RIGHT_BRACE", "Expect '}' after class body."), LAMBDA c :
        IF name.exc THEN name
        ELSE IF sup.exc THEN sup
        ELSE IF b.exc THEN b
        ELSE IF Halted(methods) THEN methods
        ELSE IF c.exc THEN c
        ELSE Ret(c, [kind |-> "Class", name |-> Parser_previous(name),
                     superclass |-> superclass, methods |-> methods.node]))))))))

Parser_declaration(p) ==
    Let(CASE Parser_check(p, "CLASS") -> Parser_class_declaration(Parser_match(p, {"CLASS"}))
          [] Parser_check(p, "FUN") -> Parser_function(Parser_match(p, {"FUN"}), "function")
          [] Parser_check(p, "VAR") -> Parser_var_declaration(Parser_match(p, {"VAR"}))
          [] OTHER -> Parser_rule("statement", p), LAMBDA r :
        IF r.diverged THEN r
        ELSE IF r.exc
        THEN Ret([Parser_synchronize(r) EXCEPT !.exc = FALSE], NoneNode)
        ELSE r)

\* self._<rule>(): the call of a parsing method by its name
Parser_rule(rule, p) ==
    CASE rule = "expression" -> Parser_expression(p)
      [] rule = "assignment" -> Parser_assignment(p)
      [] rule = "or" -> Parser_or(p)
      [] rule = "and" -> Parser_and(p)
      [] rule = "equality" -> Parser_equality(p)
      [] rule = "comparison" -> Parser_comparison(p)
      [] rule = "term" -> Parser_term(p)
      [] rule = "factor" -> Parser_factor(p)
      [] rule = "unary" -> Parser_unary(p)
      [] rule = "call" -> Parser_call(p)
      [] rule = "primary" -> Parser_primary(p)
      [] rule = "statement" -> Parser_statement(p)
      [] rule = "declaration" -> Parser_declaration(p)
      [] rule = "block" -> Parser_block(p)

\* Parser.parse run to its end: the statement list, or no return at all
RECURSIVE Parser_parse_loop(_, _)
Parser_parse_loop(p, statements) ==
    IF ~Parser_is_at_end(p)
    THEN Let(Parser_rule("declaration", p), LAMBDA d :
             IF d.diverged THEN d
             ELSE IF d.current = p.current THEN [d EXCEPT !.diverged = TRUE]
             ELSE Parser_parse_loop(d, Append(statements, d.node)))
    ELSE Ret(p, statements)

Parser_parse(p) == Parser_parse_loop(p, <<>>)

(***************************************************************************)
(* Resolver (resolving.py).  A resolver state r is the Resolver object:    *)
(*   scopes            Resolver._scopes, each scope a function name -> flag *)
(*   current_function  Resolver._current_function                          *)
(*   current_class     Resolver._current_class                             *)
(*   errors            calls made to the error callback, in order          *)
(*   locals            Interpreter._locals, written by Interpreter.resolve *)
(*   exc               the Python exception propagating, or "none"; every  *)
(*                     method is skipped while one propagates              *)
(***************************************************************************)
Resolver_new(locals) ==
    [scopes |-> <<>>, current_function |-> "NONE", current_class |-> "NONE",
     errors |-> <<>>, locals |-> locals, exc |-> "none"]

\* dict[key] = value
Put(f, k, v) == [x \in DOMAIN f \cup {k} |-> IF x = k THEN v ELSE f[x]]

Resolver_error_callback(r, token, message) ==
    [r EXCEPT !.errors = Append(@, [token |-> token, message |-> message])]

Interpreter_resolve(r, expression, depth) ==
    [r EXCEPT !.locals = Put(@, expression.id, depth)]

Resolver_begin_scope(r) ==
    IF r.exc # "none" THEN r ELSE [r EXCEPT !.scopes = Append(@, <<>>)]

Resolver_end_scope(r) ==
    IF r.exc # "none" THEN r
    ELSE [r EXCEPT !.scopes = SubSeq(@, 1, Len(@) - 1)]

\* self._scopes[-1][name] = value
Resolver_set_innermost(r, name, value) ==
    IF r.exc # "none" THEN r
    ELSE [r EXCEPT !.scopes[Len(r.scopes)] = Put(@, name, value)]

\* _declare that enters the name as already defined
Resolver_declare_defined(r, name) ==
    IF r.exc # "none" \/ r.scopes = <<>> THEN r
    ELSE Let(r.scopes[Len(r.scopes)], LAMBDA scope :
         Let(IF name.lexeme \in DOMAIN scope
             THEN Resolver_error_callback(r, name,
                      "Already a variable with this name in this scope.")
             ELSE r, LAMBDA r1 :
             Resolver_set_innermost(r1, name.lexeme, TRUE)))

Resolver_declare(r, name) ==
    IF r.exc # "none" \/ r.scopes = <<>> THEN r
    ELSE Let(r.scopes[Len(r.scopes)], LAMBDA scope :
         Let(IF name.lexeme \in DOMAIN scope
             THEN Resolver_error_callback(r, name,
                      "Already a variable with this name in this scope.")
             ELSE r, LAMBDA r1 :
             Resolver_set_innermost(r1, name.lexeme, FALSE)))

Resolver_define(r, name) ==
    IF r.exc # "none" \/ r.scopes = <<>> THEN r
    ELSE Resolver_set_innermost(r, name.lexeme, TRUE)

RECURSIVE Resolver_resolve_local_from(_, _, _, _)
Resolver_resolve_local_from(r, i, expression, name) ==
    IF i < 1 THEN r
    ELSE IF name.lexeme \in DOMAIN r.scopes[i]
    THEN Interpreter_resolve(r, expression, Len(r.scopes) - i)
    ELSE Resolver_resolve_local_from(r, i - 1, expression, name)

\* the smallest and the largest element of a nonempty set of integers
Min(S) == CHOOSE x \in S : \A y \in S : x <= y
Max(S) == CHOOSE x \in S : \A y \in S : x >= y

\* _resolve_local that stops at the outermost scope that has the name
Resolver_resolve_local_outermost(r, expression, name) ==
    IF r.exc # "none" THEN r
    ELSE Let({i \in DOMAIN r.scopes : name.lexeme \in DOMAIN r.scopes[i]}, LAMBDA found :
             IF found = {} THEN r
             ELSE Interpreter_resolve(r, expression, Len(r.scopes) - Min(found)))

Resolver_resolve_local(r, expression, name) ==
    IF r.exc # "none" THEN r
    ELSE Resolver_resolve_local_from(r, Len(r.scopes), expression, name)

RECURSIVE Resolver_resolve(_, _)
RECURSIVE Resolver_resolve_list(_, _, _)
RECURSIVE Resolver_resolve_function(_, _, _)
RECURSIVE Resolver_resolve_methods(_, _, _)
RECURSIVE Resolver_resolve_params(_, _, _)

\* @visitor(list); also the argument loop of a call
Resolver_resolve_list(r, statements, i) ==
    IF i > Len(statements) THEN r
    ELSE Resolver_resolve_list(Resolver_resolve(r, statements[i]), statements, i + 1)

Resolver_resolve_params(r, params, i) ==
    IF i > Len(params) THEN r
    ELSE Resolver_resolve_params(
             Resolver_define(Resolver_declare(r, params[i]), params[i]), params, i + 1)

\* _resolve_function that leaves _current_function at the function's kind
Resolver_resolve_function_not_restoring(r, function, type_) ==
    IF r.exc # "none" THEN r
    ELSE Let(Resolver_begin_scope([r EXCEPT !.current_function = type_]), LAMBDA r1 :
         Let(Resolver_resolve_params(r1, function.params, 1), LAMBDA r2 :
             Resolver_end_scope(Resolver_resolve_list(r2, function.body, 1))))

Resolver_resolve_function(r, function, type_) ==
    IF r.exc # "none" THEN r
    ELSE Let(r.current_function, LAMBDA enclosing_function :
         Let(Resolver_begin_scope([r EXCEPT !.current_function = type_]), LAMBDA r1 :
         Let(Resolver_resolve_params(r1, function.params, 1), LAMBDA r2 :
         Let(Resolver_end_scope(Resolver_resolve_list(r2, function.body, 1)), LAMBDA r3 :
             IF r3.exc # "none" THEN r3
             ELSE [r3 EXCEPT !.current_function = enclosing_function]))))

\* a block resolved without a scope of its own
Resolver_resolve_Block_in_scope(r, statement) ==
    Resolver_resolve_list(r, statement.statements, 1)

\* resolve(stmt.Block) without the _end_scope
Resolver_resolve_Block_not_ending(r, statement) ==
    Resolver_resolve_list(Resolver_begin_scope(r), statement.statements, 1)

Resolver_resolve_Block(r, statement) ==
    Resolver_end_scope(
        Resolver_resolve_list(Resolver_begin_scope(r), statement.statements, 1))

Resolver_resolve_Var(r, statement) ==
    Let(Resolver_declare(r, statement.name), LAMBDA r1 :
    Let(IF statement.initializer.kind # "None"
        THEN Resolver_resolve(r1, statement.initializer) ELSE r1, LAMBDA r2 :
        Resolver_define(r2, statement.name)))

Resolver_resolve_Variable(r, expression) ==
    Let(IF /\ r.scopes # <<>>
           /\ expression.name.lexeme \in DOMAIN r.scopes[Len(r.scopes)]
           /\ r.scopes[Len(r.scopes)][expression.name.lexeme] = FALSE
        THEN Resolver_error_callback(r, expression.name,
                 "Can't read local variable in its own initializer.")
        ELSE r, LAMBDA r1 :
        Resolver_resolve_local(r1, expression, expression.name))

Resolver_resolve_Assign(r, expression) ==
    Resolver_resolve_local(Resolver_resolve(r, expression.value),
                           expression, expression.name)

Resolver_resolve_Function(r, statement) ==
    Resolver_resolve_function(
        Resolver_define(Resolver_declare(r, statement.name), statement.name),
        statement, "FUNCTION")

Resolver_resolve_If(r, statement) ==
    Let(Resolver_resolve(Resolver_resolve(r, statement.condition),
                         statement.then_branch), LAMBDA r1 :
        IF statement.else_branch.kind # "None"
        THEN Resolver_resolve(r1, statement.else_branch) ELSE r1)

Resolver_resolve_Return(r, statement) ==
    Let(IF r.current_function = "NONE"
        THEN Resolver_error_callback(r, statement.keyword,
                 "Can't return from top-level code.")
        ELSE r, LAMBDA r1 :
    Let(IF r1.current_function = "INITIALIZER"
        THEN Resolver_error_callback(r1, statement.keyword,
                 "Can't return a value from an initializer.")
        ELSE r1, LAMBDA r2 :
        IF statement.value.kind # "None"
        THEN Resolver_resolve(r2, statement.value) ELSE r1))

Resolver_resolve_While(r, statement) ==
    Resolver_resolve(Resolver_resolve(r, statement.condition), statement.body)

Resolver_resolve_methods(r, methods, i) ==
    IF i > Len(methods) THEN r
    ELSE Resolver_resolve_methods(
             Resolver_resolve_function(r, methods[i],
                 IF methods[i].name.lexeme = "init" THEN "INITIALIZER" ELSE "METHOD"),
             methods, i + 1)

\* resolve(stmt.Class) that leaves _current_class at the class's kind
Resolver_resolve_Class_not_restoring(r, statement) ==
    Let(r.current_class, LAMBDA enclosing_class :
    Let(statement.superclass.kind # "None", LAMBDA has_super :
    Let(Resolver_define(
            Resolver_declare([r EXCEPT !.current_class = "CLASS"], statement.name),
            statement.name), LAMBDA r1 :
    Let(IF has_super /\ statement.name.lexeme = statement.superclass.name.lexeme
        THEN [r1 EXCEPT !.exc = "TypeError"]
        ELSE r1, LAMBDA r2 :
    Let(IF has_super /\ r2.exc = "none"
        THEN Resolver_resolve([r2 EXCEPT !.current_class = "SUBCLASS"],
                              statement.superclass)
        ELSE r2, LAMBDA r3 :
    Let(IF has_super
        THEN Resolver_set_innermost(Resolver_begin_scope(r3), "super", TRUE)
        ELSE r3, LAMBDA r4 :
    Let(Resolver_set_innermost(Resolver_begin_scope(r4), "this", TRUE), LAMBDA r5 :
    Let(Resolver_end_scope(Resolver_resolve_methods(r5, statement.methods, 1)), LAMBDA r6 :
    Let(IF has_super THEN Resolver_end_scope(r6) ELSE r6, LAMBDA r7 :
        r7)))))))))

\* resolving.py:117 calls the error callback with one argument; the callback
\* (Application._error2) takes two, so the call raises TypeError
Resolver_resolve_Class(r, statement) ==
    Let(r.current_class, LAMBDA enclosing_class :
    Let(statement.superclass.kind # "None", LAMBDA has_super :
    Let(Resolver_define(
            Resolver_declare([r EXCEPT !.current_class = "CLASS"], statement.name),
            statement.name), LAMBDA r1 :
    Let(IF has_super /\ statement.name.lexeme = statement.superclass.name.lexeme
        THEN [r1 EXCEPT !.exc = "TypeError"]
        ELSE r1, LAMBDA r2 :
    Let(IF has_super /\ r2.exc = "none"
        THEN Resolver_resolve([r2 EXCEPT !.current_class = "SUBCLASS"],
                              statement.superclass)
        ELSE r2, LAMBDA r3 :
    Let(IF has_super
        THEN Resolver_set_innermost(Resolver_begin_scope(r3), "super", TRUE)
        ELSE r3, LAMBDA r4 :
    Let(Resolver_set_innermost(Resolver_begin_scope(r4), "this", TRUE), LAMBDA r5 :
    Let(Resolver_end_scope(Resolver_resolve_methods(r5, statement.methods, 1)), LAMBDA r6 :
    Let(IF has_super THEN Resolver_end_scope(r6) ELSE r6, LAMBDA r7 :
        IF r7.exc # "none" THEN r7
        ELSE [r7 EXCEPT !.current_class = enclosing_class])))))))))

Resolver_resolve_Call(r, expression) ==
    Resolver_resolve_list(Resolver_resolve(r, expression.callee),
                          expression.arguments, 1)

Resolver_resolve_Set(r, expression) ==
    Resolver_resolve(Resolver_resolve(r, expression.value), expression.object_)

Resolver_resolve_This(r, expression) ==
    IF r.current_class = "NONE"
    THEN Resolver_error_callback(r, expression.keyword,
                                 "Can't use 'this' outside of a class.")
    ELSE Resolver_resolve_local(r, expression, expression.keyword)

Resolver_resolve_Super(r, expression) ==
    Let(IF r.current_class = "NONE"
        THEN Resolver_error_callback(r, expression.keyword,
                 "Can't use 'super' outside of a class.")
        ELSE IF r.current_class # "SUBCLASS"
        THEN Resolver_error_callback(r, expression.keyword,
                 "Can't use 'super' in a class with no superclass.")
        ELSE r, LAMBDA r1 :
        Resolver_resolve_local(r1, expression, expression.keyword))

\* the dispatch of @visitor on the node's class
Resolver_resolve(r, node) ==
    IF r.exc # "none" THEN r
    ELSE CASE node.kind = "Block" -> Resolver_resolve_Block(r, node)
           [] node.kind = "Var" -> Resolver_resolve_Var(r, node)
           [] node.kind = "Variable" -> Resolver_resolve_Variable(r, node)
           [] node.kind = "Assign" -> Resolver_resolve_Assign(r, node)
           [] node.kind = "Function" -> Resolver_resolve_Function(r, node)
           [] node.kind = "Expression" -> Resolver_resolve(r, node.expression)
           [] node.kind = "If" -> Resolver_resolve_If(r, node)
           [] node.kind = "Print" -> Resolver_resolve(r, node.expression)
           [] node.kind = "Return" -> Resolver_resolve_Return(r, node)
           [] node.kind = "While" -> Resolver_resolve_While(r, node)
           [] node.kind = "Class" -> Resolver_resolve_Class(r, node)
           [] node.kind \in {"Binary", "Logical"} ->
                  Resolver_resolve(Resolver_resolve(r, node.left), node.right)
           [] node.kind = "Call" -> Resolver_resolve_Call(r, node)
           [] node.kind = "Grouping" -> Resolver_resolve(r, node.expression)
           [] node.kind = "Literal" -> r
           [] node.kind = "Unary" -> Resolver_resolve(r, node.right)
           [] node.kind = "Get" -> Resolver_resolve(r, node.object_)
           [] node.kind = "Set" -> Resolver_resolve_Set(r, node)
           [] node.kind = "This" -> Resolver_resolve_This(r, node)
           [] node.kind = "Super" -> Resolver_resolve_Super(r, node)
           [] OTHER -> [r EXCEPT !.exc = "TypeError"]

(***************************************************************************)
(* Interpreter (interpreting.py, environments.py, standard_library.py).    *)
(* An interpreter state st is the Interpreter object with the heap of the  *)
(* objects it reaches, and the outcome of the method that returned it:     *)
(*   envs       the Environment objects; an Environment is its index, 0 is *)
(*              None; envs[1] is STANDARD_LIBRARY, the globals             *)
(*   env        Interpreter._environment                                   *)
(*   funs       the LoxFunction objects (declaration, closure, flag)       *)
(*   classes    the LoxClass objects (name, superclass, methods)           *)
(*   instances  the LoxInstance objects (class, fields)                    *)
(*   locals     Interpreter._locals                                        *)
(*   out        lines printed                                              *)
(*   sig        what propagates: "none", "return" (Return), "error"        *)
(*              (PloxRuntimeError) or "host" (any other Python exception); *)
(*              every method is skipped while something propagates         *)
(*   ret, err, host   the Return's value, the error's token and message,   *)
(*              the host exception's class                                 *)
(*   val        the method's return value                                  *)
(*   blocks     log of execute_block: _environment on entry and on exit    *)
(*   constructed  log of LoxClass.call: the class, the instance it made     *)
(*              and the value it returned                                  *)
(*   executed   log of interpret's loop: the statements it executed, each   *)
(*              with the way it ended                                      *)
(*   callback   calls interpret made to the error callback, in order       *)
(*   resolved   log of get_at and assign_at: the name, the distance, and   *)
(*              what _ancestor(distance) is: "none" when the chain ends    *)
(*              before, else a frame where the name is "bound" or "absent" *)
(***************************************************************************)
FunV(f) == [t |-> "fun", f |-> f]
ClassV(c) == [t |-> "class", c |-> c]
InstanceV(i) == [t |-> "instance", i |-> i]
\* AnonymousCallable: a host function of fixed arity
NativeV(name, arity) == [t |-> "native", name |-> name, arity |-> arity]
\* AnonymousLoxFunction: a host function with a closure
AnonFunV(name, arity, closure) ==
    [t |-> "anonfun", name |-> name, arity |-> arity, closure |-> closure]

Globals == 1

Environment_object(enclosing) == [values |-> <<>>, enclosing |-> enclosing]

\* standard_library.py: the module-level STANDARD_LIBRARY environment, the
\* closures of the eight lox_function objects, and the two host classes
STANDARD_LIBRARY ==
    [envs |-> <<[values |->
                    [n \in {"clock", "input", "str", "float", "floor", "ceil",
                            "sin", "cos", "exp", "log", "list", "listIterator"} |->
                        CASE n \in {"clock", "input"} -> NativeV(n, 0)
                          [] n = "list" -> ClassV(1)
                          [] n = "listIterator" -> ClassV(2)
                          [] OTHER -> NativeV(n, 1)],
                 enclosing |-> 0]>>
              \o [i \in 1..8 |-> Environment_object(0)],
     classes |-> <<[name |-> "list", superclass |-> 0, methods |->
                      [n \in {"init", "append", "at", "size"} |->
                          CASE n = "init" -> AnonFunV("list.init", 0, 2)
                            [] n = "append" -> AnonFunV("list.append", 1, 3)
                            [] n = "at" -> AnonFunV("list.at", 1, 4)
                            [] n = "size" -> AnonFunV("list.size", 0, 5)]],
                   [name |-> "iterator", superclass |-> 0, methods |->
                      [n \in {"init", "get", "move", "hasItems"} |->
                          CASE n = "init" -> AnonFunV("iterator.init", 1, 6)
                            [] n = "get" -> AnonFunV("iterator.get", 0, 7)
                            [] n = "move" -> AnonFunV("iterator.move", 0, 8)
                            [] n = "hasItems" -> AnonFunV("iterator.hasItems", 0, 9)]]>>]

Interpreter_new ==
    [envs |-> STANDARD_LIBRARY.envs, env |-> Globals, funs |-> <<>>,
     classes |-> STANDARD_LIBRARY.classes, instances |-> <<>>, locals |-> <<>>,
     out |-> <<>>, sig |-> "none", ret |-> NilV, err |-> NoneNode, host |-> "",
     val |-> NilV, blocks |-> <<>>, executed |-> <<>>, callback |-> <<>>,
     constructed |-> <<>>, resolved |-> <<>>]

Val(st, v) == [st EXCEPT !.val = v]

\* raise PloxRuntimeError(token, message)
RuntimeError(st, token, message) ==
    [st EXCEPT !.sig = "error", !.err = [token |-> token, message |-> message]]

\* any other Python exception
HostError(st, class) == [st EXCEPT !.sig = "host", !.host = class]

Environment_new(st, enclosing) ==
    [st EXCEPT !.envs = Append(@, Environment_object(enclosing))]

Environment_define(st, e, name, value) ==
    IF st.sig # "none" THEN st
    ELSE [st EXCEPT !.envs[e].values = Put(@, name, value)]

RECURSIVE Environment_assign_defining(_, _, _, _)
\* assign that defines the name in the outermost frame when no frame has it
Environment_assign_defining(st, e, name, value) ==
    IF st.sig # "none" THEN st
    ELSE IF name.lexeme \in DOMAIN st.envs[e].values
    THEN [st EXCEPT !.envs[e].values[name.lexeme] = value]
    ELSE IF st.envs[e].enclosing # 0
    THEN Environment_assign_defining(st, st.envs[e].enclosing, name, value)
    ELSE [st EXCEPT !.envs[e].values = Put(@, name.lexeme, value)]

RECURSIVE Environment_assign(_, _, _, _)
Environment_assign(st, e, name, value) ==
    IF st.sig # "none" THEN st
    ELSE IF name.lexeme \in DOMAIN st.envs[e].values
    THEN [st EXCEPT !.envs[e].values[name.lexeme] = value]
    ELSE IF st.envs[e].enclosing # 0
    THEN Environment_assign(st, st.envs[e].enclosing, name, value)
    ELSE RuntimeError(st, name, "Undefined variable '" \o name.lexeme \o "'.")

RECURSIVE Environment_get(_, _, _)
Environment_get(st, e, name) ==
    IF st.sig # "none" THEN st
    ELSE IF name.lexeme \in DOMAIN st.envs[e].values
    THEN Val(st, st.envs[e].values[name.lexeme])
    ELSE IF st.envs[e].enclosing # 0
    THEN Environment_get(st, st.envs[e].enclosing, name)
    ELSE RuntimeError(st, name, "Undefined variable '" \o name.lexeme \o "'.")

\* the environment `distance` links out, or 0 when the chain ends before
\* (the attribute access on None then raises AttributeError)
RECURSIVE Environment_ancestor(_, _, _)
Environment_ancestor(st, e, distance) ==
    IF distance = 0 \/ e = 0 THEN e
    ELSE Environment_ancestor(st, st.envs[e].enclosing, distance - 1)

\* the entry of the log resolved for a call that reached frame a
Reached(st, a, distance, name) ==
    [st EXCEPT !.resolved =
         Append(@, [name |-> name, distance |-> distance,
                    frame |-> IF a = 0 THEN "none"
                              ELSE IF name \in DOMAIN st.envs[a].values THEN "bound"
                              ELSE "absent"])]

Environment_assign_at(st, e, distance, name, value) ==
    IF st.sig # "none" THEN st
    ELSE Let(Environment_ancestor(st, e, distance), LAMBDA a :
             IF a = 0
             THEN HostError(Reached(st, a, distance, name.lexeme), "AttributeError")
             ELSE [Reached(st, a, distance, name.lexeme)
                       EXCEPT !.envs[a].values = Put(@, name.lexeme, value)])

\* dict.get: None when the name is absent
Environment_get_at(st, e, distance, name) ==
    IF st.sig # "none" THEN st
    ELSE Let(Environment_ancestor(st, e, distance), LAMBDA a :
             IF a = 0
             THEN HostError(Reached(st, a, distance, name), "AttributeError")
             ELSE IF name \in DOMAIN st.envs[a].values
             THEN Val(Reached(st, a, distance, name), st.envs[a].values[name])
             ELSE Val(Reached(st, a, distance, name), NilV))

Interpreter_is_truthy(object_) ==
    CASE object_.t = "nil" -> FALSE
      [] object_.t = "bool" -> object_.b
      [] OTHER -> TRUE

\* Python's == on the objects that hold Lox values: bool is a subclass of
\* int and compares with a float by numeric value (True == 1.0); None, str
\* and the numbers compare by value; every other object by identity
PyNumber(v) == IF v.t = "bool" THEN (IF v.b THEN 1 ELSE 0) ELSE v.n
PyEq(left, right) ==
    IF left.t \in {"bool", "num"} /\ right.t \in {"bool", "num"}
    THEN PyNumber(left) = PyNumber(right)
    ELSE left = right

\* str(float) with a trailing ".0" cut; str() of every other object
Interpreter_stringify(st, object_) ==
    CASE object_.t = "nil" -> "nil"
      [] object_.t = "num" -> ToString(object_.n)
      [] object_.t = "bool" -> IF object_.b THEN "True" ELSE "False"
      [] object_.t = "str" -> object_.s
      [] object_.t = "fun" ->
             "<fn " \o st.funs[object_.f].declaration.name.lexeme \o ">"
      [] object_.t = "class" -> st.classes[object_.c].name
      [] object_.t = "instance" ->
             st.classes[st.instances[object_.i].class].name \o " instance"
      [] object_.t = "anonfun" -> "<anonymous fn>"
      [] object_.t = "native" -> "<AnonymousCallable object>"

RECURSIVE LoxClass_find_method(_, _, _)
\* None is NilV
LoxClass_find_method(st, c, name) ==
    IF name \in DOMAIN st.classes[c].methods
    THEN st.classes[c].methods[name]
    ELSE IF st.classes[c].superclass # 0
    THEN LoxClass_find_method(st, st.classes[c].superclass, name)
    ELSE NilV

\* LoxFunction.bind and AnonymousLoxFunction.bind: val is the bound callable
LoxFunction_bind(st, method, instance) ==
    Let(IF method.t = "fun" THEN st.funs[method.f].closure
        ELSE method.closure, LAMBDA closure :
    Let(Len(st.envs) + 1, LAMBDA environment :
    Let(Environment_define(Environment_new(st, closure), environment,
                           "this", instance), LAMBDA st1 :
        IF method.t = "fun"
        THEN Val([st1 EXCEPT !.funs = Append(@,
                     [declaration |-> st.funs[method.f].declaration,
                      closure |-> environment,
                      is_initializer |-> st.funs[method.f].is_initializer])],
                 FunV(Len(st.funs) + 1))
        ELSE Val(st1, AnonFunV(method.name, method.arity, environment)))))

\* get that looks for a method before it looks for a field
LoxInstance_get_method_first(st, i, name) ==
    Let(LoxClass_find_method(st, st.instances[i].class, name.lexeme), LAMBDA method :
        IF method.t # "nil"
        THEN LoxFunction_bind(st, method, InstanceV(i))
        ELSE IF name.lexeme \in DOMAIN st.instances[i].fields
        THEN Val(st, st.instances[i].fields[name.lexeme])
        ELSE RuntimeError(st, name, "Undefined property '" \o name.lexeme \o "'."))

LoxInstance_get(st, i, name) ==
    Let(LoxClass_find_method(st, st.instances[i].class, name.lexeme), LAMBDA method :
        IF name.lexeme \in DOMAIN st.instances[i].fields
        THEN Val(st, st.instances[i].fields[name.lexeme])
        ELSE IF method.t # "nil"
        THEN LoxFunction_bind(st, method, InstanceV(i))
        ELSE RuntimeError(st, name, "Undefined property '" \o name.lexeme \o "'."))

LoxInstance_set(st, i, name, value) ==
    [st EXCEPT !.instances[i].fields = Put(@, name.lexeme, value)]

IsLoxCallable(v) == v.t \in {"fun", "native", "anonfun", "class"}

Callable_arity(st, callee) ==
    CASE callee.t = "fun" -> Len(st.funs[callee.f].declaration.params)
      [] callee.t \in {"native", "anonfun"} -> callee.arity
      [] callee.t = "class" ->
             Let(LoxClass_find_method(st, callee.c, "init"), LAMBDA initializer :
                 IF initializer.t = "nil" THEN 0
                 ELSE IF initializer.t = "fun"
                 THEN Len(st.funs[initializer.f].declaration.params)
                 ELSE initializer.arity)

\* standard_library.py: the host functions.  clock and input read the host
\* (time, stdin) and have no case here; the math functions are given on
\* the arguments whose result is a whole number.
Native_call(st, callee, arguments) ==
    Let(arguments[1], LAMBDA x :
    Let(callee.name, LAMBDA name :
        CASE name = "str" ->
                 IF x.t = "str" THEN Val(st, x)
                 ELSE IF x.t = "num" THEN Val(st, StrV(ToString(x.n) \o ".0"))
                 ELSE HostError(st, "ValueError")
          [] name = "float" ->
                 IF x.t = "num" THEN Val(st, x)
                 ELSE IF x.t = "str" /\ x.s \in DOMAIN NumberLexemes
                 THEN Val(st, NumV(NumberLexemes[x.s]))
                 ELSE HostError(st, "ValueError")
          [] name \in {"floor", "ceil"} ->
                 IF x.t = "num" THEN Val(st, x) ELSE HostError(st, "ValueError")
          [] name \in {"sin", "cos", "exp", "log"} /\ x.t # "num" ->
                 HostError(st, "ValueError")
          [] name = "sin" /\ x = NumV(0) -> Val(st, NumV(0))
          [] name = "cos" /\ x = NumV(0) -> Val(st, NumV(1))
          [] name = "exp" /\ x = NumV(0) -> Val(st, NumV(1))
          [] name = "log" /\ x = NumV(1) -> Val(st, NumV(0))
          [] name = "log" /\ x = NumV(0) -> HostError(st, "ValueError")))

RECURSIVE Interpreter_evaluate(_, _)
RECURSIVE Interpreter_evaluate_arguments(_, _, _, _)
RECURSIVE Interpreter_execute(_, _)
RECURSIVE Interpreter_execute_statements(_, _, _)
RECURSIVE Interpreter_execute_block(_, _, _)
RECURSIVE Interpreter_execute_While(_, _)
RECURSIVE LoxFunction_call(_, _, _)
RECURSIVE LoxClass_call(_, _, _)
RECURSIVE Callable_call(_, _, _)

\* _look_up_variable without the resolver's table: the nearest binding of the
\* name in the chain of the current environment
Interpreter_look_up_variable_dynamic(st, name, expression) ==
    Environment_get(st, st.env, name)

Interpreter_look_up_variable(st, name, expression) ==
    IF expression.id \in DOMAIN st.locals
    THEN Environment_get_at(st, st.env, st.locals[expression.id], name.lexeme)
    ELSE Environment_get(st, Globals, name)

Interpreter_evaluate_Unary(st, unary) ==
    Let(Interpreter_evaluate(st, unary.right), LAMBDA r :
    Let(r.val, LAMBDA right :
        IF r.sig # "none" THEN r
        ELSE IF unary.operator.type = "MINUS"
        THEN IF right.t = "num" THEN Val(r, NumV(0 - right.n))
             ELSE RuntimeError(r, unary.operator, "Operand must be a number")
        ELSE IF unary.operator.type = "BANG"
        THEN Val(r, BoolV(~Interpreter_is_truthy(right)))
        ELSE Val(r, NilV)))

Abs(n) == IF n < 0 THEN 0 - n ELSE n

\* left / right on floats, where the quotient is a whole number
TrueDivide(st, left, right) ==
    CASE right = 0 -> HostError(st, "ZeroDivisionError")
      [] right # 0 /\ Abs(left) % Abs(right) = 0 ->
             Val(st, NumV((IF (left < 0) = (right < 0) THEN 1 ELSE -1)
                          * (Abs(left) \div Abs(right))))

\* evaluate(expr.Binary) with a + that converts: when one operand is a string
\* the other is turned into its text and the two are concatenated
Interpreter_evaluate_Binary_converting(st, binary) ==
    Let(Interpreter_evaluate(st, binary.left), LAMBDA l :
    Let(Interpreter_evaluate(l, binary.right), LAMBDA r :
    Let(l.val, LAMBDA left :
    Let(r.val, LAMBDA right :
    Let(binary.operator.type, LAMBDA type :
    Let(left.t = "num" /\ right.t = "num", LAMBDA numbers :
        IF r.sig # "none" THEN r
        ELSE IF type \in {"MINUS", "SLASH", "STAR", "GREATER", "GREATER_EQUAL",
                          "LESS", "LESS_EQUAL"}
        THEN IF ~numbers
             THEN RuntimeError(r, binary.operator, "Operands must be numbers")
             ELSE CASE type = "MINUS" -> Val(r, NumV(left.n - right.n))
                    [] type = "SLASH" -> TrueDivide(r, left.n, right.n)
                    [] type = "STAR" -> Val(r, NumV(left.n * right.n))
                    [] type = "GREATER" -> Val(r, BoolV(left.n > right.n))
                    [] type = "GREATER_EQUAL" -> Val(r, BoolV(left.n >= right.n))
                    [] type = "LESS" -> Val(r, BoolV(left.n < right.n))
                    [] type = "LESS_EQUAL" -> Val(r, BoolV(left.n <= right.n))
        ELSE IF type = "PLUS"
        THEN IF numbers THEN Val(r, NumV(left.n + right.n))
             ELSE IF left.t = "str" \/ right.t = "str"
             THEN Val(r, StrV(Interpreter_stringify(r, left)
                              \o Interpreter_stringify(r, right)))
             ELSE RuntimeError(r, binary.operator,
                               "Operands must be two numbers or two strings.")
        ELSE IF type = "BANG_EQUAL" THEN Val(r, BoolV(~PyEq(left, right)))
        ELSE IF type = "EQUAL_EQUAL" THEN Val(r, BoolV(PyEq(left, right)))
        ELSE Val(r, NilV)))))))

Interpreter_evaluate_Binary(st, binary) ==
    Let(Interpreter_evaluate(st, binary.left), LAMBDA l :
    Let(Interpreter_evaluate(l, binary.right), LAMBDA r :
    Let(l.val, LAMBDA left :
    Let(r.val, LAMBDA right :
    Let(binary.operator.type, LAMBDA type :
    Let(left.t = "num" /\ right.t = "num", LAMBDA numbers :
        IF r.sig # "none" THEN r
        ELSE IF type \in {"MINUS", "SLASH", "STAR", "GREATER", "GREATER_EQUAL",
                          "LESS", "LESS_EQUAL"}
        THEN IF ~numbers
             THEN RuntimeError(r, binary.operator, "Operands must be numbers")
             ELSE CASE type = "MINUS" -> Val(r, NumV(left.n - right.n))
                    [] type = "SLASH" -> TrueDivide(r, left.n, right.n)
                    [] type = "STAR" -> Val(r, NumV(left.n * right.n))
                    [] type = "GREATER" -> Val(r, BoolV(left.n > right.n))
                    [] type = "GREATER_EQUAL" -> Val(r, BoolV(left.n >= right.n))
                    [] type = "LESS" -> Val(r, BoolV(left.n < right.n))
                    [] type = "LESS_EQUAL" -> Val(r, BoolV(left.n <= right.n))
        ELSE IF type = "PLUS"
        THEN IF numbers THEN Val(r, NumV(left.n + right.n))
             ELSE IF left.t = "str" /\ right.t = "str"
             THEN Val(r, StrV(left.s \o right.s))
             ELSE RuntimeError(r, binary.operator,
                               "Operands must be two numbers or two strings.")
        ELSE IF type = "BANG_EQUAL" THEN Val(r, BoolV(~PyEq(left, right)))
        ELSE IF type = "EQUAL_EQUAL" THEN Val(r, BoolV(PyEq(left, right)))
        ELSE Val(r, NilV)))))))

Interpreter_evaluate_Assign(st, assign) ==
    Let(Interpreter_evaluate(st, assign.value), LAMBDA v :
    Let(IF assign.id \in DOMAIN v.locals
        THEN Environment_assign_at(v, v.env, v.locals[assign.id],
                                   assign.name, v.val)
        ELSE Environment_assign(v, Globals, assign.name, v.val), LAMBDA w :
        IF w.sig # "none" THEN w ELSE Val(w, v.val)))

\* evaluate(expr.Logical) that evaluates both operands before it chooses
Interpreter_evaluate_Logical_eager(st, logical) ==
    Let(Interpreter_evaluate(st, logical.left), LAMBDA l :
    Let(Interpreter_evaluate(l, logical.right), LAMBDA r :
        IF r.sig # "none" THEN r
        ELSE IF logical.operator.type = "OR"
        THEN IF Interpreter_is_truthy(l.val) THEN Val(r, l.val) ELSE r
        ELSE IF ~Interpreter_is_truthy(l.val) THEN Val(r, l.val) ELSE r))

Interpreter_evaluate_Logical(st, logical) ==
    Let(Interpreter_evaluate(st, logical.left), LAMBDA l :
        IF l.sig # "none" THEN l
        ELSE IF logical.operator.type = "OR"
        THEN IF Interpreter_is_truthy(l.val) THEN l
             ELSE Interpreter_evaluate(l, logical.right)
        ELSE IF ~Interpreter_is_truthy(l.val) THEN l
             ELSE Interpreter_evaluate(l, logical.right))

Interpreter_evaluate_arguments(st, arguments, i, values) ==
    IF st.sig # "none" THEN st
    ELSE IF i > Len(arguments) THEN Val(st, values)
    ELSE Let(Interpreter_evaluate(st, arguments[i]), LAMBDA a :
             Interpreter_evaluate_arguments(a, arguments, i + 1, Append(values, a.val)))

\* evaluate(expr.Call) that checks the callee before it evaluates the arguments
Interpreter_evaluate_Call_checking_first(st, call) ==
    Let(Interpreter_evaluate(st, call.callee), LAMBDA c :
    Let(c.val, LAMBDA callee :
        IF c.sig # "none" THEN c
        ELSE IF ~IsLoxCallable(callee)
        THEN RuntimeError(c, call.paren, "Can only call functions and classes.")
        ELSE IF Len(call.arguments) # Callable_arity(c, callee)
        THEN RuntimeError(c, call.paren,
                 "Expected {function.arity()} arguments but got {len(arguments)}.")
        ELSE Let(Interpreter_evaluate_arguments(c, call.arguments, 1, <<>>), LAMBDA a :
                 IF a.sig # "none" THEN a
                 ELSE Callable_call(a, callee, a.val))))

\* the message of interpreting.py:415 is a plain string, not an f-string
Interpreter_evaluate_Call(st, call) ==
    Let(Interpreter_evaluate(st, call.callee), LAMBDA c :
    Let(Interpreter_evaluate_arguments(c, call.arguments, 1, <<>>), LAMBDA a :
    Let(c.val, LAMBDA callee :
    Let(a.val, LAMBDA arguments :
        IF a.sig # "none" THEN a
        ELSE IF ~IsLoxCallable(callee)
        THEN RuntimeError(a, call.paren, "Can only call functions and classes.")
        ELSE IF Len(arguments) # Callable_arity(a, callee)
        THEN RuntimeError(a, call.paren,
                 "Expected {function.arity()} arguments but got {len(arguments)}.")
        ELSE Callable_call(a, callee, arguments)))))

Interpreter_evaluate_Get(st, get) ==
    Let(Interpreter_evaluate(st, get.object_), LAMBDA o :
        IF o.sig # "none" THEN o
        ELSE IF o.val.t = "instance" THEN LoxInstance_get(o, o.val.i, get.name)
        ELSE RuntimeError(o, get.name, "Only instances have properties."))

Interpreter_evaluate_Set(st, set_) ==
    Let(Interpreter_evaluate(st, set_.object_), LAMBDA o :
    Let(Interpreter_evaluate(o, set_.value), LAMBDA v :
        IF o.sig # "none" THEN o
        ELSE IF o.val.t # "instance"
        THEN RuntimeError(o, set_.name, "Only instances have fields.")
        ELSE IF v.sig # "none" THEN v
        ELSE Val(LoxInstance_set(v, o.val.i, set_.name, v.val), v.val)))

\* super with the lookup starting at the superclass of the receiver's class
Interpreter_evaluate_Super_of_receiver(st, super_) ==
    Let(st.locals[super_.id], LAMBDA distance :
    Let(Environment_get_at(st, st.env, distance - 1, "this"), LAMBDA o :
    Let(st.classes[st.instances[o.val.i].class].superclass, LAMBDA superclass :
    Let(LoxClass_find_method(o, superclass, super_.method.lexeme), LAMBDA method :
        IF super_.id \notin DOMAIN st.locals THEN HostError(st, "KeyError")
        ELSE IF o.sig # "none" THEN o
        ELSE IF method.t = "nil"
        THEN RuntimeError(o, super_.method,
                 "Undefined property '" \o super_.method.lexeme \o "'.")
        ELSE LoxFunction_bind(o, method, o.val)))))

Interpreter_evaluate_Super(st, super_) ==
    Let(st.locals[super_.id], LAMBDA distance :
    Let(Environment_get_at(st, st.env, distance, "super"), LAMBDA s :
    Let(Environment_get_at(s, s.env, distance - 1, "this"), LAMBDA o :
    Let(LoxClass_find_method(o, s.val.c, super_.method.lexeme), LAMBDA method :
        IF super_.id \notin DOMAIN st.locals THEN HostError(st, "KeyError")
        ELSE IF o.sig # "none" THEN o
        ELSE IF s.val.t # "class" THEN HostError(o, "AttributeError")
        ELSE IF method.t = "nil"
        THEN RuntimeError(o, super_.method,
                 "Undefined property '" \o super_.method.lexeme \o "'.")
        ELSE LoxFunction_bind(o, method, o.val)))))

\* the dispatch of functools.singledispatchmethod on the node's class
Interpreter_evaluate(st, node) ==
    IF st.sig # "none" THEN st
    ELSE CASE node.kind = "Literal" -> Val(st, node.value)
           [] node.kind = "Grouping" -> Interpreter_evaluate(st, node.expression)
           [] node.kind = "Unary" -> Interpreter_evaluate_Unary(st, node)
           [] node.kind = "Binary" -> Interpreter_evaluate_Binary(st, node)
           [] node.kind = "Variable" ->
                  Interpreter_look_up_variable(st, node.name, node)
           [] node.kind = "Assign" -> Interpreter_evaluate_Assign(st, node)
           [] node.kind = "Logical" -> Interpreter_evaluate_Logical(st, node)
           [] node.kind = "Call" -> Interpreter_evaluate_Call(st, node)
           [] node.kind = "Get" -> Interpreter_evaluate_Get(st, node)
           [] node.kind = "Set" -> Interpreter_evaluate_Set(st, node)
           [] node.kind = "This" ->
                  Interpreter_look_up_variable(st, node.keyword, node)
           [] node.kind = "Super" -> Interpreter_evaluate_Super(st, node)
           [] OTHER -> HostError(st, "NotImplementedError")

RECURSIVE LoxFunction_define_parameters(_, _, _, _, _)
\* zip(params, arguments)
LoxFunction_define_parameters(st, environment, params, arguments, i) ==
    IF i > Len(params) \/ i > Len(arguments) THEN st
    ELSE LoxFunction_define_parameters(
             Environment_define(st, environment, params[i].lexeme, arguments[i]),
             environment, params, arguments, i + 1)

\* call with environment = self._closure, no Environment of its own
LoxFunction_call_in_closure(st, f, arguments) ==
    Let(st.funs[f], LAMBDA self :
    Let(self.closure, LAMBDA environment :
    Let(LoxFunction_define_parameters(
            st, environment, self.declaration.params, arguments, 1), LAMBDA st1 :
    Let(Interpreter_execute_block(st1, self.declaration.body, environment), LAMBDA st2 :
    Let([st2 EXCEPT !.sig = "none", !.ret = NilV], LAMBDA caught :
        IF st2.sig = "return"
        THEN IF self.is_initializer
             THEN Environment_get_at(caught, self.closure, 0, "this")
             ELSE Val(caught, st2.ret)
        ELSE IF st2.sig # "none" THEN st2
        ELSE IF self.is_initializer
        THEN Environment_get_at(st2, self.closure, 0, "this")
        ELSE Val(st2, NilV))))))

\* call without the except clause: a Return leaves the call as it came
LoxFunction_call_not_catching(st, f, arguments) ==
    Let(st.funs[f], LAMBDA self :
    Let(Len(st.envs) + 1, LAMBDA environment :
    Let(LoxFunction_define_parameters(
            Environment_new(st, self.closure), environment,
            self.declaration.params, arguments, 1), LAMBDA st1 :
    Let(Interpreter_execute_block(st1, self.declaration.body, environment), LAMBDA st2 :
        IF st2.sig # "none" THEN st2
        ELSE IF self.is_initializer
        THEN Environment_get_at(st2, self.closure, 0, "this")
        ELSE Val(st2, NilV)))))

LoxFunction_call(st, f, arguments) ==
    Let(st.funs[f], LAMBDA self :
    Let(Len(st.envs) + 1, LAMBDA environment :
    Let(LoxFunction_define_parameters(
            Environment_new(st, self.closure), environment,
            self.declaration.params, arguments, 1), LAMBDA st1 :
    Let(Interpreter_execute_block(st1, self.declaration.body, environment), LAMBDA st2 :
    Let([st2 EXCEPT !.sig = "none", !.ret = NilV], LAMBDA caught :
        IF st2.sig = "return"
        THEN IF self.is_initializer
             THEN Environment_get_at(caught, self.closure, 0, "this")
             ELSE Val(caught, st2.ret)
        ELSE IF st2.sig # "none" THEN st2
        ELSE IF self.is_initializer
        THEN Environment_get_at(st2, self.closure, 0, "this")
        ELSE Val(st2, NilV))))))

\* the entry LoxClass.call adds to the log when it returns
Constructed(st, c, i) ==
    [st EXCEPT !.constructed = Append(@, [class |-> c, instance |-> i,
                                          value |-> st.val])]

\* call with `return initializer.bind(instance).call(interpreter, arguments)`
LoxClass_call_returning_init(st, c, arguments) ==
    Let(Len(st.instances) + 1, LAMBDA i :
    Let(InstanceV(i), LAMBDA instance :
    Let([st EXCEPT !.instances = Append(@, [class |-> c, fields |-> <<>>])], LAMBDA st1 :
    Let(LoxClass_find_method(st1, c, "init"), LAMBDA initializer :
    Let(LoxFunction_bind(st1, initializer, instance), LAMBDA bound :
    Let(Callable_call(bound, bound.val, arguments), LAMBDA called :
        IF initializer.t = "nil" THEN Constructed(Val(st1, instance), c, i)
        ELSE IF called.sig # "none" THEN called
        ELSE Constructed(called, c, i)))))))

LoxClass_call(st, c, arguments) ==
    Let(Len(st.instances) + 1, LAMBDA i :
    Let(InstanceV(i), LAMBDA instance :
    Let([st EXCEPT !.instances = Append(@, [class |-> c, fields |-> <<>>])], LAMBDA st1 :
    Let(LoxClass_find_method(st1, c, "init"), LAMBDA initializer :
    Let(LoxFunction_bind(st1, initializer, instance), LAMBDA bound :
    Let(Callable_call(bound, bound.val, arguments), LAMBDA called :
        IF initializer.t = "nil" THEN Constructed(Val(st1, instance), c, i)
        ELSE IF called.sig # "none" THEN called
        ELSE Constructed(Val(called, instance), c, i)))))))

\* the host functions behind AnonymousLoxFunction all start with
\* environment.get_by_name, which Environment does not have
Callable_call(st, callee, arguments) ==
    CASE callee.t = "fun" -> LoxFunction_call(st, callee.f, arguments)
      [] callee.t = "class" -> LoxClass_call(st, callee.c, arguments)
      [] callee.t = "native" -> Native_call(st, callee, arguments)
      [] callee.t = "anonfun" -> HostError(st, "AttributeError")

Interpreter_execute_statements(st, statements, i) ==
    IF st.sig # "none" \/ i > Len(statements) THEN st
    ELSE Interpreter_execute_statements(Interpreter_execute(st, statements[i]),
                                        statements, i + 1)

\* execute_block with the restore after the loop instead of in a finally clause
Interpreter_execute_block_without_finally(st, statements, environment) ==
    Let(st.env, LAMBDA previous :
    Let(Interpreter_execute_statements([st EXCEPT !.env = environment],
                                       statements, 1), LAMBDA body :
    Let(IF body.sig = "none" THEN [body EXCEPT !.env = previous] ELSE body, LAMBDA final :
        [final EXCEPT !.blocks = Append(@, [entry |-> previous, exit |-> final.env,
                                            sig |-> final.sig])])))

\* try: ... finally: self._environment = previous
Interpreter_execute_block(st, statements, environment) ==
    Let(st.env, LAMBDA previous :
    Let(Interpreter_execute_statements([st EXCEPT !.env = environment],
                                       statements, 1), LAMBDA body :
    Let([body EXCEPT !.env = previous], LAMBDA final :
        [final EXCEPT !.blocks = Append(@, [entry |-> previous, exit |-> final.env,
                                            sig |-> final.sig])])))

Interpreter_execute_Print(st, statement) ==
    Let(Interpreter_evaluate(st, statement.expression), LAMBDA v :
        IF v.sig # "none" THEN v
        ELSE [v EXCEPT !.out = Append(@, Interpreter_stringify(v, v.val))])

Interpreter_execute_Var(st, statement) ==
    Let(IF statement.initializer.kind # "None"
        THEN Interpreter_evaluate(st, statement.initializer)
        ELSE Val(st, NilV), LAMBDA v :
        Environment_define(v, v.env, statement.name.lexeme, v.val))

Interpreter_execute_Block(st, statement) ==
    Interpreter_execute_block(Environment_new(st, st.env), statement.statements,
                              Len(st.envs) + 1)

Interpreter_execute_While(st, statement) ==
    Let(Interpreter_evaluate(st, statement.condition), LAMBDA c :
        IF c.sig # "none" THEN c
        ELSE IF Interpreter_is_truthy(c.val)
        THEN Interpreter_execute_While(Interpreter_execute(c, statement.body),
                                       statement)
        ELSE c)

Interpreter_execute_Function(st, statement) ==
    Environment_define(
        [st EXCEPT !.funs = Append(@, [declaration |-> statement, closure |-> st.env,
                                       is_initializer |-> FALSE])],
        st.env, statement.name.lexeme, FunV(Len(st.funs) + 1))

Interpreter_execute_Return(st, statement) ==
    Let(IF statement.value.kind # "None"
        THEN Interpreter_evaluate(st, statement.value)
        ELSE Val(st, NilV), LAMBDA v :
        IF v.sig # "none" THEN v ELSE [v EXCEPT !.sig = "return", !.ret = v.val])

Interpreter_execute_If(st, statement) ==
    Let(Interpreter_evaluate(st, statement.condition), LAMBDA c :
        IF c.sig # "none" THEN c
        ELSE IF Interpreter_is_truthy(c.val)
        THEN Interpreter_execute(c, statement.then_branch)
        ELSE IF statement.else_branch.kind # "None"
        THEN Interpreter_execute(c, statement.else_branch)
        ELSE c)

RECURSIVE Interpreter_class_methods(_, _, _, _)
\* the loop of interpreting.py:265-270; val is the dict `methods`
Interpreter_class_methods(st, methods, i, dict) ==
    IF i > Len(methods) THEN Val(st, dict)
    ELSE Interpreter_class_methods(
             [st EXCEPT !.funs = Append(@,
                 [declaration |-> methods[i], closure |-> st.env,
                  is_initializer |-> (methods[i].name.lexeme = "this")])],
             methods, i + 1,
             Put(dict, methods[i].name.lexeme, FunV(Len(st.funs) + 1)))

\* execute(stmt.Class) that leaves the frame of super in place
Interpreter_execute_Class_not_popping(st, statement) ==
    Let(statement.superclass.kind # "None", LAMBDA has_super :
    Let(IF has_super THEN Interpreter_evaluate(st, statement.superclass)
        ELSE Val(st, NilV), LAMBDA s :
    Let(s.val, LAMBDA superclass :
    Let(Environment_define(s, s.env, statement.name.lexeme, NilV), LAMBDA st1 :
    Let(IF has_super
        THEN Environment_define(
                 [Environment_new(st1, st1.env) EXCEPT !.env = Len(st1.envs) + 1],
                 Len(st1.envs) + 1, "super", superclass)
        ELSE st1, LAMBDA st2 :
    Let(Interpreter_class_methods(st2, statement.methods, 1, <<>>), LAMBDA st3 :
    Let(Len(st3.classes) + 1, LAMBDA class_ :
    Let([st3 EXCEPT !.classes = Append(@,
            [name |-> statement.name.lexeme,
             superclass |-> IF has_super THEN superclass.c ELSE 0,
             methods |-> st3.val])], LAMBDA st4 :
    Let(st4, LAMBDA st5 :
        IF s.sig # "none" THEN s
        ELSE IF has_super /\ superclass.t # "class"
        THEN RuntimeError(s, statement.superclass.name, "Superclass must be a class.")
        ELSE Environment_assign(st5, st5.env, statement.name, ClassV(class_)))))))))))

Interpreter_execute_Class(st, statement) ==
    Let(statement.superclass.kind # "None", LAMBDA has_super :
    Let(IF has_super THEN Interpreter_evaluate(st, statement.superclass)
        ELSE Val(st, NilV), LAMBDA s :
    Let(s.val, LAMBDA superclass :
    Let(Environment_define(s, s.env, statement.name.lexeme, NilV), LAMBDA st1 :
    Let(IF has_super
        THEN Environment_define(
                 [Environment_new(st1, st1.env) EXCEPT !.env = Len(st1.envs) + 1],
                 Len(st1.envs) + 1, "super", superclass)
        ELSE st1, LAMBDA st2 :
    Let(Interpreter_class_methods(st2, statement.methods, 1, <<>>), LAMBDA st3 :
    Let(Len(st3.classes) + 1, LAMBDA class_ :
    Let([st3 EXCEPT !.classes = Append(@,
            [name |-> statement.name.lexeme,
             superclass |-> IF has_super THEN superclass.c ELSE 0,
             methods |-> st3.val])], LAMBDA st4 :
    Let(IF has_super THEN [st4 EXCEPT !.env = st4.envs[st4.env].enclosing]
        ELSE st4, LAMBDA st5 :
        IF s.sig # "none" THEN s
        ELSE IF has_super /\ superclass.t # "class"
        THEN RuntimeError(s, statement.superclass.name, "Superclass must be a class.")
        ELSE Environment_assign(st5, st5.env, statement.name, ClassV(class_)))))))))))

Interpreter_execute(st, node) ==
    IF st.sig # "none" THEN st
    ELSE CASE node.kind = "Expression" -> Interpreter_evaluate(st, node.expression)
           [] node.kind = "Print" -> Interpreter_execute_Print(st, node)
           [] node.kind = "Var" -> Interpreter_execute_Var(st, node)
           [] node.kind = "Block" -> Interpreter_execute_Block(st, node)
           [] node.kind = "While" -> Interpreter_execute_While(st, node)
           [] node.kind = "Function" -> Interpreter_execute_Function(st, node)
           [] node.kind = "Return" -> Interpreter_execute_Return(st, node)
           [] node.kind = "If" -> Interpreter_execute_If(st, node)
           [] node.kind = "Class" -> Interpreter_execute_Class(st, node)
           [] OTHER -> HostError(st, "NotImplementedError")

RECURSIVE Interpreter_interpret_loop_catching_inside(_, _, _)
\* interpret with the try statement inside the for loop
Interpreter_interpret_loop_catching_inside(st, statements, i) ==
    IF i > Len(statements) THEN st
    ELSE Let(Interpreter_execute(st, statements[i]), LAMBDA s :
         Let([s EXCEPT !.executed =
                  Append(@, [index |-> i, sig |-> s.sig, err |-> s.err])], LAMBDA logged :
             IF s.sig = "error"
             THEN Interpreter_interpret_loop_catching_inside(
                      [logged EXCEPT !.sig = "none", !.err = NoneNode,
                                     !.callback = Append(@, s.err)],
                      statements, i + 1)
             ELSE IF s.sig # "none" THEN logged
             ELSE Interpreter_interpret_loop_catching_inside(logged, statements, i + 1)))

RECURSIVE Interpreter_interpret_loop(_, _, _)
\* the for loop of interpret
Interpreter_interpret_loop(st, statements, i) ==
    IF i > Len(statements) THEN st
    ELSE Let(Interpreter_execute(st, statements[i]), LAMBDA s :
         Let([s EXCEPT !.executed =
                  Append(@, [index |-> i, sig |-> s.sig, err |-> s.err])], LAMBDA logged :
             IF s.sig # "none" THEN logged
             ELSE Interpreter_interpret_loop(logged, statements, i + 1)))

\* except PloxRuntimeError as e: self._error_callback(e).  A Return or a
\* host exception is not caught.
Interpreter_interpret(st, statements) ==
    Let([st EXCEPT !.out = <<>>, !.blocks = <<>>, !.executed = <<>>,
                            !.constructed = <<>>, !.resolved = <<>>,
                   !.callback = <<>>, !.val = NilV], LAMBDA fresh :
    Let(Interpreter_interpret_loop(fresh, statements, 1), LAMBDA r :
        IF r.sig = "error"
        THEN [r EXCEPT !.sig = "none", !.err = NoneNode, !.callback = Append(@, r.err)]
        ELSE r))

(***************************************************************************)
(* Application (run.py).  The Application object a:                        *)
(*   had_error, had_runtime_error   the two flags                          *)
(*   interpreter   the Interpreter it owns                                 *)
(*   status        "prompt": run_prompt waits for a line; "hung": a call   *)
(*                 does not return; "crashed": a Python exception left     *)
(*                 run; "exited": the process ended                        *)
(*   history       the sources run so far                                  *)
(*   stages        the stages the last run entered, in order               *)
(*   statements    the statement list the last run's parser returned       *)
(*   diagnostics   the messages the last run reported, each with the stage *)
(*                 that reported it                                        *)
(*   args          the number of command-line arguments main was given, -1 *)
(*                 before main has read them                               *)
(*   exit_code     the exit status of the process once it has ended, -1    *)
(*                 before; Python ends with status 1 when an exception     *)
(*                 leaves main                                             *)
(***************************************************************************)
Application_new ==
    [had_error |-> FALSE, had_runtime_error |-> FALSE,
     interpreter |-> Interpreter_new, status |-> "prompt", history |-> <<>>,
     stages |-> <<>>, statements |-> <<>>, diagnostics |-> <<>>,
     args |-> -1, exit_code |-> -1]

Application_report(a, message) ==
    [a EXCEPT !.diagnostics = Append(@, [stage |-> a.stages[Len(a.stages)],
                                         message |-> message]),
              !.had_error = TRUE]

\* _error and _error2, called by the scanner, the parser and the resolver
RECURSIVE Application_error_calls(_, _, _)
Application_error_calls(a, errors, i) ==
    IF i > Len(errors) THEN a
    ELSE Application_error_calls(Application_report(a, errors[i].message),
                                 errors, i + 1)

RECURSIVE Application_interpreter_error(_, _, _)
Application_interpreter_error(a, errors, i) ==
    IF i > Len(errors) THEN a
    ELSE Application_interpreter_error(
             [a EXCEPT !.diagnostics = Append(@, [stage |-> a.stages[Len(a.stages)],
                                                  message |-> errors[i].message]),
                       !.had_runtime_error = TRUE],
             errors, i + 1)

Application_interpret(a, statements) ==
    Let(Interpreter_interpret(a.interpreter, statements), LAMBDA i :
    Let(Application_interpreter_error(
            [a EXCEPT !.stages = Append(@, "interpreter"), !.interpreter = i],
            i.callback, 1), LAMBDA a1 :
        IF i.sig # "none" THEN [a1 EXCEPT !.status = "crashed", !.exit_code = 1] ELSE a1))

Application_resolve(a, statements) ==
    Let(Resolver_resolve_list(Resolver_new(a.interpreter.locals), statements, 1), LAMBDA r :
    Let(Application_error_calls(
            [a EXCEPT !.stages = Append(@, "resolver"),
                      !.interpreter.locals = r.locals],
            r.errors, 1), LAMBDA a1 :
        IF r.exc # "none" THEN [a1 EXCEPT !.status = "crashed", !.exit_code = 1]
        ELSE IF a1.had_error THEN a1
        ELSE Application_interpret(a1, statements)))

Application_parse(a, tokens) ==
    Let(Parser_parse(Parser_new(tokens, Len(a.history))), LAMBDA p :
    Let(Application_error_calls([a EXCEPT !.stages = Append(@, "parser")],
                                p.errors, 1), LAMBDA a1 :
        IF p.diverged THEN [a1 EXCEPT !.status = "hung"]
        ELSE IF a1.had_error THEN [a1 EXCEPT !.statements = p.node]
        ELSE Application_resolve([a1 EXCEPT !.statements = p.node], p.node)))

Application_run(a, source) ==
    Let(Scanner_scan_tokens(Scanner_new(source)), LAMBDA sc :
    Let(Application_error_calls(
            [a EXCEPT !.history = Append(@, source), !.stages = <<"scanner">>,
                      !.statements = <<>>, !.diagnostics = <<>>],
            sc.errors, 1), LAMBDA a1 :
        Application_parse(a1, sc.tokens)))

\* one iteration of run_prompt's loop with a non-empty line
Application_run_prompt(a, line) ==
    Let(Application_run(a, line), LAMBDA r :
        IF r.status # "prompt" THEN r ELSE [r EXCEPT !.had_error = FALSE])

\* run_file on the text of the file
Application_run_file(a, source) ==
    Let(Application_run(a, source), LAMBDA r :
        IF r.status # "prompt" THEN r
        ELSE IF r.had_error THEN [r EXCEPT !.status = "exited", !.exit_code = 65]
        ELSE IF r.had_runtime_error
        THEN [r EXCEPT !.status = "exited", !.exit_code = 70]
        ELSE [r EXCEPT !.status = "exited", !.exit_code = 0])

\* run_prompt reads an empty line: the loop ends and main returns
Application_run_prompt_empty(a) == [a EXCEPT !.status = "exited", !.exit_code = 0]

\* main with args command-line arguments (sys.argv holds one more, the
\* program's name); source is the text of the file the first one names
Application_main(a, args, source) ==
    IF args + 1 > 2
    THEN [a EXCEPT !.args = args, !.status = "exited", !.exit_code = 64]
    ELSE IF args + 1 = 2
    THEN Application_run_file([a EXCEPT !.args = args, !.status = "prompt"], source)
    ELSE [a EXCEPT !.args = args, !.status = "prompt"]

(***************************************************************************)
(* Sources.  A source is the sequence of its lexemes.                      *)
(***************************************************************************)
\* a Return unwinds through two nested blocks of a function body
BlockReturnSource ==
    <<"fun", "g", "(", ")", "{", "{", "{", "return", "1", ";", "}", "}", "print",
      "2", ";", "}", "{", "print", "g", "(", ")", ";", "}", "print", "3", ";">>

\* blocks left normally, by a Return and by a runtime error, inside a block
BlockExitsSource ==
    <<"fun", "g", "(", ")", "{", "{", "return", "1", ";", "}", "}", "{", "{",
      "print", "g", "(", ")", ";", "}", "{", "g", "(", ")", "+", "nil", ";", "}",
      "print", "2", ";", "}">>

\* a runtime error is raised in a block inside a called function
BlockErrorSource ==
    <<"var", "a", "=", "1", ";", "fun", "h", "(", ")", "{", "{", "print", "a", "+",
      "nil", ";", "}", "}", "var", "b", "=", "2", ";", "{", "h", "(", ")", ";",
      "}", "var", "c", "=", "3", ";">>

\* a later line reading the globals of earlier lines
LaterLineSource ==
    <<"print", "a", ";", "print", "b", ";", "var", "d", "=", "0", ";">>

\* blocks completing normally in a loop
WhileSource ==
    <<"var", "a", "=", "0", ";", "while", "(", "a", "<", "2", ")", "{", "a", "=",
      "a", "+", "1", ";", "{", "print", "a", ";", "}", "}">>

\* the scanner reports an error, the remaining tokens parse
ScannerErrorSource ==
    <<"@", "var", "e", "=", "1", ";", "print", "e", ";">>

\* the scanner reports an unterminated string
UnterminatedStringSource ==
    <<"print", "1", ";", "'open">>

\* the parser reports an error and goes on (no ParseError is raised)
ParserErrorSource ==
    <<"print", "1", "=", "2", ";", "print", "3", ";">>

\* a ParseError is raised at EOF
ParserErrorAtEndSource ==
    <<"var", "e", "=", "2", ";", "print", "e">>

\* the resolver reports an error
ResolverErrorSource ==
    <<"print", "1", ";", "return", "1", ";">>

\* the resolver reports an error in a block
ResolverErrorInBlockSource ==
    <<"{", "var", "a", "=", "1", ";", "var", "a", "=", "2", ";", "}">>

\* a runtime error in the first statement
UndefinedSource ==
    <<"print", "undefined", ";", "print", "1", ";">>

Sources ==
    {BlockReturnSource,
     BlockExitsSource,
     BlockErrorSource,
     LaterLineSource,
     WhileSource,
     ScannerErrorSource,
     UnterminatedStringSource,
     ParserErrorSource,
     ParserErrorAtEndSource,
     ResolverErrorSource,
     ResolverErrorInBlockSource,
     UndefinedSource}

(***************************************************************************)
(* The read-eval-print loop (run_prompt): each step reads one line and     *)
(* runs it on the same Application.                                        *)
(***************************************************************************)
MaxLines == 2

IdleParser == Parser_new(<<>>, 0)
IdleResolver == Resolver_new(<<>>)

Init ==
    /\ app = Application_new
    /\ parser = IdleParser
    /\ stmts = <<>>
    /\ ppc = "idle"
    /\ resolver = IdleResolver

RunPrompt(lines) ==
    \E line \in lines :
        /\ app.status = "prompt"
        /\ Len(app.history) < MaxLines
        /\ app' = Application_run_prompt(app, line)
        /\ UNCHANGED <<parser, stmts, ppc, resolver>>

Next == RunPrompt(Sources)

\* run_prompt reads one of the lines, at most n lines in all, and runs it
ReadLine(lines, n) ==
    \E line \in lines :
        /\ app.status = "prompt"
        /\ Len(app.history) < n
        /\ app' = Application_run_prompt(app, line)
        /\ UNCHANGED <<parser, stmts, ppc, resolver>>

Spec == Init /\ [][Next]_vars

(***************************************************************************)
(* Lines about closures.                                                   *)
(***************************************************************************)
RECURSIVE Repeat(_, _)
Repeat(lexemes, n) == IF n = 0 THEN <<>> ELSE lexemes \o Repeat(lexemes, n - 1)

\* var x = global; { fun f() { print x; } f(); .. var x = local; f(); .. }
\* with `before` calls of f ahead of the local declaration and `after` behind
BindingSource(global, local, before, after) ==
    <<"var", "x", "=", global, ";", "{",
      "fun", "f", "(", ")", "{", "print", "x", ";", "}">>
    \o Repeat(<<"f", "(", ")", ";">>, before)
    \o <<"var", "x", "=", local, ";">>
    \o Repeat(<<"f", "(", ")", ";">>, after)
    \o <<"}">>

BindingSources ==
    {BindingSource(global, "'local'", before, after) :
        global \in {"'global'", "'a'"}, before \in 0..1, after \in 1..3}

NextBinding == RunPrompt(BindingSources)

SpecBinding == Init /\ [][NextBinding]_vars

\* a counter factory and its two counters
FactorySource ==
    <<"fun", "make", "(", ")", "{", "var", "i", "=", "0", ";", "fun", "inc", "(",
      ")", "{", "i", "=", "i", "+", "1", ";", "return", "i", ";", "}", "return",
      "inc", ";", "}", "var", "c", "=", "make", "(", ")", ";", "var", "d", "=",
      "make", "(", ")", ";">>

CounterSource(counter) == <<"print", counter, "(", ")", ";">>

CounterSources == {FactorySource, CounterSource("c"), CounterSource("d")}

MaxCounterLines == 4

NextCounters ==
    \E line \in CounterSources :
        /\ app.status = "prompt"
        /\ Len(app.history) < MaxCounterLines
        /\ app' = Application_run_prompt(app, line)
        /\ UNCHANGED <<parser, stmts, ppc, resolver>>

SpecCounters == Init /\ [][NextCounters]_vars

(***************************************************************************)
(* Lines about classes.                                                    *)
(***************************************************************************)
\* init executes `return;` before its last statement
InitReturnSource ==
    <<"class", "Foo", "{", "init", "(", ")", "{", "this", ".", "v", "=", "1", ";",
      "return", ";", "this", ".", "v", "=", "2", ";", "}", "}", "var", "o", "=",
      "Foo", "(", ")", ";", "var", "p", "=", "Foo", "(", ")", ";", "print", "o",
      ".", "v", ";">>

\* init is found on the superclass
InheritedInitSource ==
    <<"class", "A", "{", "init", "(", "x", ")", "{", "this", ".", "v", "=", "x",
      ";", "}", "}", "class", "B", "<", "A", "{", "}", "var", "o", "=", "B", "(",
      "2", ")", ";", "print", "o", ".", "v", ";">>

\* no init on the class
NoInitSource ==
    <<"class", "C", "{", "}", "var", "o", "=", "C", "(", ")", ";", "print", "o",
      ";">>

ConstructionSources == {InitReturnSource, InheritedInitSource, NoInitSource}

\* init called on an instance; ending is `return ;` or nothing
DirectInitSource(ending) ==
    <<"class", "A", "{", "init", "(", ")", "{", "this", ".", "v", "=", "1", ";">>
    \o ending
    \o <<"}", "m", "(", ")", "{", "return", "2", ";", "}", "}",
         "var", "a", "=", "A", "(", ")", ";",
         "var", "r", "=", "a", ".", "init", "(", ")", ";">>

DirectInitSources == {DirectInitSource(ending) : ending \in {<<>>, <<"return", ";">>}}

\* A declares m; B < A declares t, which calls super.m, and may override m;
\* C < B may override m; t is called on an instance of receiver (B or C)
SuperSource(receiver, b_overrides, c_overrides) ==
    <<"class", "A", "{", "m", "(", ")", "{", "print", "'a'", ";",
      "return", "this", ";", "}", "}",
      "class", "B", "<", "A", "{">>
    \o (IF b_overrides
        THEN <<"m", "(", ")", "{", "print", "'b'", ";", "}">> ELSE <<>>)
    \o <<"t", "(", ")", "{", "return", "super", ".", "m", "(", ")", ";", "}", "}",
         "class", "C", "<", "B", "{">>
    \o (IF c_overrides
        THEN <<"m", "(", ")", "{", "print", "'local'", ";", "}">> ELSE <<>>)
    \o <<"}", "var", "o", "=", receiver, "(", ")", ";",
         "var", "r", "=", "o", ".", "t", "(", ")", ";">>

SuperSources ==
    {SuperSource(receiver, b_overrides, c_overrides) :
        receiver \in {"B", "C"}, b_overrides \in BOOLEAN, c_overrides \in BOOLEAN}

NextClasses == RunPrompt(ConstructionSources \cup DirectInitSources \cup SuperSources)

SpecClasses == Init /\ [][NextClasses]_vars

(***************************************************************************)
(* Lines about equality.                                                   *)
(***************************************************************************)
\* expressions for a value of each runtime type: nil, booleans, numbers,
\* strings, a function, a class, an instance
EqualityOperands == {"nil", "true", "false", "0", "1", "''", "'a'", "f", "A", "i"}

EqualitySource(a, b) ==
    <<"class", "A", "{", "}", "fun", "f", "(", ")", "{", "}",
      "var", "i", "=", "A", "(", ")", ";",
      "var", "x", "=", a, ";", "var", "y", "=", b, ";",
      "var", "r", "=", "x", "==", "y", ";",
      "var", "s", "=", "x", "!=", "y", ";">>

EqualitySources == {EqualitySource(a, b) : a \in EqualityOperands, b \in EqualityOperands}

MaxEqualityLines == 1

NextEquality ==
    \E line \in EqualitySources :
        /\ app.status = "prompt"
        /\ Len(app.history) < MaxEqualityLines
        /\ app' = Application_run_prompt(app, line)
        /\ UNCHANGED <<parser, stmts, ppc, resolver>>

SpecEquality == Init /\ [][NextEquality]_vars

(***************************************************************************)
(* Lines about the + operator.                                             *)
(***************************************************************************)
\* expressions for a value of each runtime type: nil, a boolean, numbers,
\* strings, a function, a class, an instance
PlusOperands == {"nil", "true", "0", "1", "2", "''", "'a'", "'b'", "f", "A", "i"}

PlusSource(a, b) ==
    <<"class", "A", "{", "}", "fun", "f", "(", ")", "{", "}",
      "var", "i", "=", "A", "(", ")", ";",
      "var", "x", "=", a, ";", "var", "y", "=", b, ";",
      "var", "r", "=", "x", "+", "y", ";",
      "print", "r", ";">>

PlusSources == {PlusSource(a, b) : a \in PlusOperands, b \in PlusOperands}

MaxPlusLines == 1

NextPlus == ReadLine(PlusSources, MaxPlusLines)

SpecPlus == Init /\ [][NextPlus]_vars

(***************************************************************************)
(* Lines about the logical operators.                                      *)
(***************************************************************************)
\* the left operand: nil, the booleans, numbers, strings, a function
LogicalLeftOperands == {"nil", "false", "true", "0", "1", "2", "''", "'a'", "t"}
\* the argument of the call that is the right operand
LogicalRightOperands == {"nil", "false", "true", "0", "''", "'b'"}

\* the right operand is a call of t, which prints before it returns
LogicalSource(a, operator, b) ==
    <<"fun", "t", "(", "v", ")", "{", "print", "v", ";", "return", "v", ";", "}",
      "var", "x", "=", a, ";",
      "var", "r", "=", "x", operator, "t", "(", b, ")", ";">>

LogicalSources ==
    {LogicalSource(a, operator, b) :
        a \in LogicalLeftOperands, operator \in {"or", "and"},
        b \in LogicalRightOperands}

MaxLogicalLines == 1

NextLogical == ReadLine(LogicalSources, MaxLogicalLines)

SpecLogical == Init /\ [][NextLogical]_vars

(***************************************************************************)
(* The process from main on: with one argument the file is run and the     *)
(* process exits, with none run_prompt reads lines until an empty one.     *)
(***************************************************************************)
PrintSource == <<"print", "1", ";">>

\* the parser reports an error at a token no rule consumes
ParserErrorAtTokenSource == <<";">>

SelfInheritSource == <<"class", "X", "<", "X", "{", "}">>

DivisionByZeroSource == <<"print", "1", "/", "0", ";">>

StringPlusNumberSource == <<"'a'", "+", "1", ";">>

MainSources ==
    {PrintSource,
     ScannerErrorSource,
     UnterminatedStringSource,
     ParserErrorSource,
     ParserErrorAtEndSource,
     ParserErrorAtTokenSource,
     ResolverErrorSource,
     UndefinedSource,
     StringPlusNumberSource,
     SelfInheritSource,
     DivisionByZeroSource}

MaxArgs == 3
MaxMainLines == 2

InitMain ==
    /\ app = [Application_new EXCEPT !.status = "start"]
    /\ parser = IdleParser
    /\ stmts = <<>>
    /\ ppc = "idle"
    /\ resolver = IdleResolver

Main ==
    \E args \in 0..MaxArgs, source \in MainSources :
        /\ app.status = "start"
        /\ app' = Application_main(app, args, source)
        /\ UNCHANGED <<parser, stmts, ppc, resolver>>

ReadEmptyLine ==
    /\ app.status = "prompt"
    /\ app' = Application_run_prompt_empty(app)
    /\ UNCHANGED <<parser, stmts, ppc, resolver>>

NextMain ==
    \/ Main
    \/ ReadLine(MainSources, MaxMainLines)
    \/ ReadEmptyLine

SpecMain == InitMain /\ [][NextMain]_vars

(***************************************************************************)
(* Lines with a return statement.                                          *)
(***************************************************************************)
\* where the return statement stands: at top level, directly or inside a
\* block, an if or a while, or after a completed declaration
TopLevelContexts ==
    {"top", "block", "if", "while", "after function", "after class", "after init"}
\* inside the body of a function or of a method that is not init
FunctionContexts ==
    {"function", "function block", "after nested function", "method",
     "function in init"}
\* directly inside the body of a method named init
InitContexts == {"init", "init after nested function"}

ReturnContexts == TopLevelContexts \cup FunctionContexts \cup InitContexts

ReturnStatement(value) ==
    IF value THEN <<"return", "1", ";">> ELSE <<"return", ";">>

ReturnSource(context, value) ==
    LET ret == ReturnStatement(value)
    IN  CASE context = "top" -> ret
          [] context = "block" -> <<"{">> \o ret \o <<"}">>
          [] context = "if" -> <<"if", "(", "true", ")">> \o ret
          [] context = "while" -> <<"while", "(", "false", ")">> \o ret
          [] context = "after function" ->
                 <<"fun", "f", "(", ")", "{", "}">> \o ret
          [] context = "after class" ->
                 <<"class", "A", "{", "m", "(", ")", "{", "}", "}">> \o ret
          [] context = "after init" ->
                 <<"class", "A", "{", "init", "(", ")", "{", "}", "}">> \o ret
          [] context = "function" ->
                 <<"fun", "f", "(", ")", "{">> \o ret \o <<"}">>
          [] context = "function block" ->
                 <<"fun", "f", "(", ")", "{", "{">> \o ret \o <<"}", "}">>
          [] context = "after nested function" ->
                 <<"fun", "f", "(", ")", "{", "fun", "g", "(", ")", "{", "}">>
                     \o ret \o <<"}">>
          [] context = "method" ->
                 <<"class", "A", "{", "m", "(", ")", "{">> \o ret \o <<"}", "}">>
          [] context = "function in init" ->
                 <<"class", "A", "{", "init", "(", ")", "{",
                   "fun", "g", "(", ")", "{">> \o ret \o <<"}", "}", "}">>
          [] context = "init" ->
                 <<"class", "A", "{", "init", "(", ")", "{">> \o ret \o <<"}", "}">>
          [] context = "init after nested function" ->
                 <<"class", "A", "{", "init", "(", ")", "{",
                   "fun", "g", "(", ")", "{", "}">> \o ret \o <<"}", "}">>

ReturnSources ==
    {ReturnSource(context, value) : context \in ReturnContexts, value \in BOOLEAN}

MaxReturnLines == 2

NextReturn == ReadLine(ReturnSources, MaxReturnLines)

SpecReturn == Init /\ [][NextReturn]_vars

(***************************************************************************)
(* Lines with a call.                                                      *)
(***************************************************************************)
\* the callee: functions of 0, 1 and 2 parameters, a class without init, a
\* class whose init has one parameter, a host function of one parameter,
\* and three values that are not callable
Callees == {"f0", "f1", "f2", "A", "B", "str", "nil", "0", "'a'"}

MaxCallArguments == 2
MaxCallLines == 2

RECURSIVE CallArguments(_)
\* t(1), ..., t(m)
CallArguments(m) ==
    IF m = 0 THEN <<>>
    ELSE CallArguments(m - 1) \o (IF m > 1 THEN <<",">> ELSE <<>>)
             \o <<"t", "(", ToString(m), ")">>

\* the declaration the callee needs; the body of each function prints
CalleeDeclaration(callee) ==
    CASE callee = "f0" -> <<"fun", "f0", "(", ")", "{", "print", "'b'", ";", "}">>
      [] callee = "f1" -> <<"fun", "f1", "(", "a", ")", "{", "print", "'b'", ";", "}">>
      [] callee = "f2" ->
             <<"fun", "f2", "(", "a", ",", "b", ")", "{", "print", "'b'", ";", "}">>
      [] callee = "A" -> <<"class", "A", "{", "}">>
      [] callee = "B" ->
             <<"class", "B", "{", "init", "(", "a", ")", "{", "print", "'b'", ";",
               "}", "}">>
      [] OTHER -> <<>>

\* the callee and each argument print when they are evaluated
CallSource(callee, m) ==
    <<"fun", "t", "(", "v", ")", "{", "print", "v", ";", "return", "v", ";", "}">>
        \o CalleeDeclaration(callee)
        \o <<"var", "r", "=", "t", "(", callee, ")", "(">>
        \o CallArguments(m) \o <<")", ";">>

CallSources == {CallSource(callee, m) : callee \in Callees, m \in 0..MaxCallArguments}

NextCall == ReadLine(CallSources, MaxCallLines)

SpecCall == Init /\ [][NextCall]_vars

(***************************************************************************)
(* Environment objects on their own: a heap of frames that starts with one *)
(* frame without an enclosing one; each step makes a frame enclosed by an  *)
(* existing one, or calls define or assign on a frame.                     *)
(***************************************************************************)
MaxEnvironments == 2

EnvironmentNames == {"a", "b"}
EnvironmentValues == {NumV(1), NumV(2)}

InitEnvironments ==
    /\ app = [Application_new EXCEPT !.interpreter.envs = <<Environment_object(0)>>,
                                     !.interpreter.classes = <<>>]
    /\ parser = IdleParser
    /\ stmts = <<>>
    /\ ppc = "idle"
    /\ resolver = IdleResolver

\* the caller has caught the PloxRuntimeError of the call before
Caught(st) == [st EXCEPT !.sig = "none", !.err = NoneNode]

NewEnvironment ==
    \E enclosing \in DOMAIN app.interpreter.envs :
        /\ Len(app.interpreter.envs) < MaxEnvironments
        /\ app' = [app EXCEPT !.interpreter = Environment_new(Caught(@), enclosing)]
        /\ UNCHANGED <<parser, stmts, ppc, resolver>>

Define ==
    \E e \in DOMAIN app.interpreter.envs, name \in EnvironmentNames,
       value \in EnvironmentValues :
        /\ app' = [app EXCEPT !.interpreter =
                                  Environment_define(Caught(@), e, name, value)]
        /\ UNCHANGED <<parser, stmts, ppc, resolver>>

Assign ==
    \E e \in DOMAIN app.interpreter.envs, name \in EnvironmentNames,
       value \in EnvironmentValues :
        /\ app' = [app EXCEPT !.interpreter =
                       Environment_assign(Caught(@), e,
                                          Token("IDENTIFIER", name, NilV, 1), value)]
        /\ UNCHANGED <<parser, stmts, ppc, resolver>>

NextEnvironments == NewEnvironment \/ Define \/ Assign

SpecEnvironments == InitEnvironments /\ [][NextEnvironments]_vars

(***************************************************************************)
(* A parameter list and an argument list parsed step by step: one step for *)
(* the part of _function or _finish_call before its while loop, one step   *)
(* per iteration of the loop, one step for the part after it.  The source  *)
(* is "fun f(a, ..., a) {}" or "f(1, ..., 1);" with n items, the i-th item *)
(* and the comma after it on line i.  ppc is the position: "function" and  *)
(* "call" at the entry, ".loop" at the test of the loop, "done" after the  *)
(* return, "raised" after a ParseError.  stmts is the list parameters or   *)
(* arguments; parser.node keeps the name token or the callee in the loop.  *)
(***************************************************************************)
MaxItems == 257

ItemTokens(type, lexeme, literal, n) ==
    [i \in 1..(2 * n - 1) |->
        IF i % 2 = 1 THEN Token(type, lexeme, literal, (i + 1) \div 2)
        ELSE Token("COMMA", ",", NilV, i \div 2)]

FunctionTokens(n) ==
    <<Token("FUN", "fun", NilV, 1), Token("IDENTIFIER", "f", NilV, 1),
      Token("LEFT_PAREN", "(", NilV, 1)>>
    \o (IF n = 0 THEN <<>> ELSE ItemTokens("IDENTIFIER", "a", NilV, n))
    \o <<Token("RIGHT_PAREN", ")", NilV, n), Token("LEFT_BRACE", "{", NilV, n),
         Token("RIGHT_BRACE", "}", NilV, n), Token("EOF", "", NilV, n)>>

CallTokens(n) ==
    <<Token("IDENTIFIER", "f", NilV, 1), Token("LEFT_PAREN", "(", NilV, 1)>>
    \o (IF n = 0 THEN <<>> ELSE ItemTokens("NUMBER", "1", NumV(1), n))
    \o <<Token("RIGHT_PAREN", ")", NilV, n), Token("SEMICOLON", ";", NilV, n),
         Token("EOF", "", NilV, n)>>

InitArity ==
    /\ \E n \in 0..MaxItems :
          \/ /\ parser = Parser_match(Parser_new(FunctionTokens(n), 1), {"FUN"})
             /\ ppc = "function"
          \/ /\ parser = Parser_new(CallTokens(n), 1)
             /\ ppc = "call"
    /\ stmts = <<>>
    /\ app = Application_new
    /\ resolver = IdleResolver

Position(p, loop) ==
    IF p.exc THEN "raised" ELSE IF p.diverged THEN "hung" ELSE loop

\* name = ...; self._consume(LEFT_PAREN, ...); parameters = []; if not ...
FunctionBegin ==
    /\ ppc = "function"
    /\ LET first == Parser_function_begin(parser, "function")
       IN  /\ parser' = Ret(first, Parser_peek(parser))
           /\ stmts' = IF first.exc THEN stmts ELSE first.node
           /\ ppc' = Position(first, IF first.ok THEN "function.loop"
                                     ELSE "function.end")
    /\ UNCHANGED <<app, resolver>>

\* while self._match(COMMA): one iteration, or the exit from the loop
FunctionParameter ==
    /\ ppc = "function.loop"
    /\ LET m == Parser_match(parser, {"COMMA"})
           n == Parser_parameters_body(m, stmts)
       IN  IF ~m.ok
           THEN /\ ppc' = "function.end"
                /\ UNCHANGED <<parser, stmts, resolver>>
           ELSE /\ parser' = Ret(n, parser.node)
                /\ stmts' = IF n.exc THEN stmts ELSE n.node
                /\ ppc' = Position(n, "function.loop")
    /\ UNCHANGED <<app, resolver>>

\* self._consume(RIGHT_PAREN, ...) ... return stmt.Function(...)
FunctionEnd ==
    /\ ppc = "function.end"
    /\ LET f == Parser_function_end(parser, "function", parser.node, stmts)
       IN  /\ parser' = f
           /\ ppc' = Position(f, "done")
    /\ UNCHANGED <<stmts, app, resolver>>

\* _call up to its call of _finish_call, then arguments = []; if not ...
CallBegin ==
    /\ ppc = "call"
    /\ LET callee == Parser_primary(parser)
           m == Parser_match(callee, {"LEFT_PAREN"})
           first == Parser_arguments_first(m)
       IN  /\ ~callee.exc
           /\ m.ok
           /\ IF Parser_check(m, "RIGHT_PAREN")
              THEN /\ parser' = Ret(m, callee.node)
                   /\ stmts' = <<>>
                   /\ ppc' = "call.end"
              ELSE /\ parser' = Ret(first, callee.node)
                   /\ stmts' = IF Halted(first) THEN stmts ELSE first.node
                   /\ ppc' = Position(first, "call.loop")
    /\ UNCHANGED <<app, resolver>>

\* while self._match(COMMA): one iteration, or the exit from the loop
CallArgument ==
    /\ ppc = "call.loop"
    /\ LET m == Parser_match(parser, {"COMMA"})
           e == Parser_arguments_body(m, stmts)
       IN  IF ~m.ok
           THEN /\ ppc' = "call.end"
                /\ UNCHANGED <<parser, stmts, resolver>>
           ELSE /\ parser' = Ret(e, parser.node)
                /\ stmts' = IF Halted(e) THEN stmts ELSE e.node
                /\ ppc' = Position(e, "call.loop")
    /\ UNCHANGED <<app, resolver>>

\* paren = self._consume(RIGHT_PAREN, ...); return expr.Call(...)
CallEnd ==
    /\ ppc = "call.end"
    /\ LET c == Parser_finish_call_end(parser, parser.node, stmts)
       IN  /\ parser' = c
           /\ ppc' = Position(c, "done")
    /\ UNCHANGED <<stmts, app, resolver>>

NextArity ==
    \/ FunctionBegin \/ FunctionParameter \/ FunctionEnd
    \/ CallBegin \/ CallArgument \/ CallEnd

SpecArity == InitArity /\ [][NextArity]_vars

(***************************************************************************)
(* The host functions of the standard library called with one argument of  *)
(* each type.                                                              *)
(***************************************************************************)
Builtins == {"str", "float", "floor", "ceil", "sin", "cos", "exp", "log"}

BuiltinArguments == {"nil", "true", "'a'", "0", "clock"}

BuiltinSource(builtin, argument) ==
    <<"var", "r", "=", builtin, "(", argument, ")", ";", "print", "r", ";">>

BuiltinSources ==
    {BuiltinSource(builtin, argument) :
        builtin \in Builtins, argument \in BuiltinArguments}

MaxBuiltinLines == 2

NextBuiltins == ReadLine(BuiltinSources, MaxBuiltinLines)

SpecBuiltins == Init /\ [][NextBuiltins]_vars

(***************************************************************************)
(* Property access: a class A with a method m, a subclass B that may       *)
(* override it, a receiver, possibly a field of the property's name on it, *)
(* and the access itself.                                                  *)
(***************************************************************************)
InstanceReceivers == {"A", "B"}
OtherReceivers == {"1", "'a'", "nil", "true", "A", "clock"}
Properties == {"m", "n"}

PropertySource(receiver, instance, b_overrides, field, property) ==
    <<"class", "A", "{", "m", "(", ")", "{", "return", "'A'", ";", "}", "}",
      "class", "B", "<", "A", "{">>
    \o (IF b_overrides
        THEN <<"m", "(", ")", "{", "return", "'B'", ";", "}">> ELSE <<>>)
    \o <<"}", "var", "i", "=", receiver>>
    \o (IF instance THEN <<"(", ")">> ELSE <<>>)
    \o <<";">>
    \o (IF field THEN <<"i", ".", property, "=", "1", ";">> ELSE <<>>)
    \o <<"var", "r", "=", "i", ".", property, ";">>

PropertySources ==
    {PropertySource(receiver, TRUE, b_overrides, field, property) :
        receiver \in InstanceReceivers, b_overrides \in BOOLEAN,
        field \in BOOLEAN, property \in Properties}
    \cup {PropertySource(receiver, FALSE, FALSE, FALSE, property) :
            receiver \in OtherReceivers, property \in Properties}

MaxPropertyLines == 2

NextProperties == ReadLine(PropertySources, MaxPropertyLines)

SpecProperties == Init /\ [][NextProperties]_vars

(***************************************************************************)
(* Programs the resolver accepts, with names bound at several depths: a    *)
(* global a, a block that may declare its own a, in it a function that may *)
(* take a as its parameter and reads or assigns a in a block of its body,  *)
(* which may declare its own a too; and                                    *)
(* methods that use this or super directly, in a block or in a function    *)
(* declared in the method.                                                 *)
(***************************************************************************)
ScopeUses == {"read", "assign"}

ScopeSource(outer, inner, param, use) ==
    <<"var", "a", "=", "0", ";", "{">>
    \o (IF outer THEN <<"var", "a", "=", "1", ";">> ELSE <<>>)
    \o <<"fun", "f", "(">> \o (IF param THEN <<"a">> ELSE <<>>) \o <<")", "{", "{">>
    \o (IF inner THEN <<"var", "a", "=", "2", ";">> ELSE <<>>)
    \o (IF use = "assign" THEN <<"a", "=", "5", ";">> ELSE <<>>)
    \o <<"print", "a", ";", "}", "}", "f", "(">>
    \o (IF param THEN <<"3">> ELSE <<>>)
    \o <<")", ";", "}">>

ScopeSources ==
    {ScopeSource(outer, inner, param, use) :
        outer \in BOOLEAN, inner \in BOOLEAN, param \in BOOLEAN, use \in ScopeUses}

MethodUses == {"this", "super"}
MethodPlaces == {"body", "block", "function"}

MethodSource(use, place) ==
    <<"class", "A", "{", "m", "(", ")", "{", "return", "this", ";", "}", "}",
      "class", "B">>
    \o (IF use = "super" THEN <<"<", "A">> ELSE <<>>)
    \o <<"{", "t", "(", ")", "{">>
    \o (IF place = "block" THEN <<"{">>
        ELSE IF place = "function" THEN <<"fun", "g", "(", ")", "{">> ELSE <<>>)
    \o <<"return">>
    \o (IF use = "super" THEN <<"super", ".", "m">> ELSE <<"this">>)
    \o <<";">>
    \o (IF place = "block" THEN <<"}">>
        ELSE IF place = "function" THEN <<"}", "return", "g", "(", ")", ";">>
        ELSE <<>>)
    \o <<"}", "}", "var", "o", "=", "B", "(", ")", ";",
         "var", "r", "=", "o", ".", "t", "(", ")", ";">>

MethodSources ==
    {MethodSource(use, place) : use \in MethodUses, place \in MethodPlaces}

ResolvedSources == ScopeSources \cup MethodSources \cup CounterSources

MaxResolvedLines == 2

NextResolved == ReadLine(ResolvedSources, MaxResolvedLines)

SpecResolved == Init /\ [][NextResolved]_vars

(***************************************************************************)
(* The resolver's scope stack on its own: scopes are pushed and popped,    *)
(* names are declared and defined in the innermost scope, and a variable   *)
(* expression is resolved against the stack.  ppc is the operation done    *)
(* last and stmts the name it was given.                                   *)
(***************************************************************************)
MaxScopes == 3

ScopeNames == {"a", "b"}

\* the variable expression that is resolved
ScopeExpression(name) ==
    [kind |-> "Variable", name |-> Token("IDENTIFIER", name, NilV, 1),
     id |-> <<1, 1, "Variable">>]

InitScopes ==
    /\ resolver = Resolver_new(<<>>)
    /\ ppc = "new"
    /\ stmts = <<>>
    /\ parser = IdleParser
    /\ app = Application_new

BeginScope ==
    /\ Len(resolver.scopes) < MaxScopes
    /\ resolver' = Resolver_begin_scope(resolver)
    /\ ppc' = "begin_scope"
    /\ stmts' = <<>>
    /\ UNCHANGED <<parser, app>>

EndScope ==
    /\ resolver.scopes # <<>>
    /\ resolver' = Resolver_end_scope(resolver)
    /\ ppc' = "end_scope"
    /\ stmts' = <<>>
    /\ UNCHANGED <<parser, app>>

\* self._declare(name); self._define(name), as for a parameter
DeclareName ==
    \E name \in ScopeNames :
        /\ name \notin UNION {DOMAIN resolver.scopes[i] : i \in {Len(resolver.scopes)}
                                                              \cap DOMAIN resolver.scopes}
        /\ resolver' = Resolver_define(
                           Resolver_declare(resolver, Token("IDENTIFIER", name, NilV, 1)),
                           Token("IDENTIFIER", name, NilV, 1))
        /\ ppc' = "declare"
        /\ stmts' = <<name>>
        /\ UNCHANGED <<parser, app>>

ResolveLocal ==
    \E name \in ScopeNames :
        /\ resolver' = Resolver_resolve_local(resolver, ScopeExpression(name),
                                              Token("IDENTIFIER", name, NilV, 1))
        /\ ppc' = "resolve_local"
        /\ stmts' = <<name>>
        /\ UNCHANGED <<parser, app>>

NextScopes == BeginScope \/ EndScope \/ DeclareName \/ ResolveLocal

SpecScopes == InitScopes /\ [][NextScopes]_vars

(***************************************************************************)
(* Lines that declare a variable at global level, in a block, in a         *)
(* function body and in the body of a function with a parameter of the     *)
(* same name.                                                              *)
(***************************************************************************)
DeclarationPlaces == {"global", "block", "function", "parameter"}

DeclarationInitializers == {"none", "1", "a"}

\* var a = 0; <place> [var a = 1;] var a [= initializer]; print a; <end>
DeclarationSource(place, prior, initializer) ==
    <<"var", "a", "=", "0", ";">>
    \o (CASE place = "global" -> <<>>
          [] place = "block" -> <<"{">>
          [] place = "function" -> <<"fun", "f", "(", ")", "{">>
          [] place = "parameter" -> <<"fun", "f", "(", "a", ")", "{">>)
    \o (IF prior THEN <<"var", "a", "=", "1", ";">> ELSE <<>>)
    \o <<"var", "a">>
    \o (IF initializer = "none" THEN <<>> ELSE <<"=", initializer>>)
    \o <<";", "print", "a", ";">>
    \o (IF place = "global" THEN <<>> ELSE <<"}">>)

DeclarationSources ==
    {DeclarationSource(place, prior, initializer) :
         place \in DeclarationPlaces, prior \in BOOLEAN,
         initializer \in DeclarationInitializers}

MaxDeclarationLines == 2

NextDeclarations == ReadLine(DeclarationSources, MaxDeclarationLines)

SpecDeclarations == Init /\ [][NextDeclarations]_vars

(***************************************************************************)
(* Lines that use this or super at one place: outside every class, in a   *)
(* method, behind a class declaration, in and behind a class declared in   *)
(* a method of another class.                                              *)
(***************************************************************************)
ClassKeywords == {"this", "super"}

KeywordPlaces ==
    {"top", "function", "method", "submethod", "after_class",
     "after_subclass", "function_in_method", "class_in_submethod",
     "after_class_in_submethod", "subclass_in_method",
     "after_subclass_in_method"}

\* the lexemes ahead of the use
KeywordPlaceBegin(place) ==
    CASE place = "top" ->
             <<>>
      [] place = "function" ->
             <<"fun", "f", "(", ")", "{">>
      [] place = "method" ->
             <<"class", "A", "{", "t", "(", ")", "{">>
      [] place = "submethod" ->
             <<"class", "A", "{", "}", "class", "B", "<", "A", "{", "t", "(",
             ")", "{">>
      [] place = "after_class" ->
             <<"class", "A", "{", "t", "(", ")", "{", "}", "}">>
      [] place = "after_subclass" ->
             <<"class", "A", "{", "}", "class", "B", "<", "A", "{", "t", "(",
             ")", "{", "}", "}">>
      [] place = "function_in_method" ->
             <<"class", "A", "{", "t", "(", ")", "{", "fun", "g", "(", ")",
             "{">>
      [] place = "class_in_submethod" ->
             <<"class", "A", "{", "}", "class", "B", "<", "A", "{", "t", "(",
             ")", "{", "class", "C", "{", "u", "(", ")", "{">>
      [] place = "after_class_in_submethod" ->
             <<"class", "A", "{", "}", "class", "B", "<", "A", "{", "t", "(",
             ")", "{", "class", "C", "{", "}">>
      [] place = "subclass_in_method" ->
             <<"class", "A", "{", "t", "(", ")", "{", "class", "C", "<", "A",
             "{", "u", "(", ")", "{">>
      [] place = "after_subclass_in_method" ->
             <<"class", "A", "{", "t", "(", ")", "{", "class", "C", "<", "A",
             "{", "}">>

\* the lexemes behind the use
KeywordPlaceEnd(place) ==
    CASE place = "top" -> <<>>
      [] place = "function" -> <<"}">>
      [] place = "method" -> <<"}", "}">>
      [] place = "submethod" -> <<"}", "}">>
      [] place = "after_class" -> <<>>
      [] place = "after_subclass" -> <<>>
      [] place = "function_in_method" -> <<"}", "}", "}">>
      [] place = "class_in_submethod" -> <<"}", "}", "}", "}">>
      [] place = "after_class_in_submethod" -> <<"}", "}">>
      [] place = "subclass_in_method" -> <<"}", "}", "}", "}">>
      [] place = "after_subclass_in_method" -> <<"}", "}">>

\* <begin> this; <end> or <begin> super.m; <end>
KeywordSource(keyword, place) ==
    KeywordPlaceBegin(place)
    \o (IF keyword = "this" THEN <<"this", ";">> ELSE <<"super", ".", "m", ";">>)
    \o KeywordPlaceEnd(place)

KeywordSources ==
    {KeywordSource(keyword, place) : keyword \in ClassKeywords, place \in KeywordPlaces}

MaxKeywordLines == 2

NextKeywords == ReadLine(KeywordSources, MaxKeywordLines)

SpecKeywords == Init /\ [][NextKeywords]_vars

(***************************************************************************)
(* Lines with a for statement between a declaration of the global i and a  *)
(* print of i.                                                             *)
(***************************************************************************)
ForInitializers == {"none", "var", "expression"}

\* var i = 1; for ([var] [i = 0]; [i < 3]; [i = i + 1]) <body> print i;
\* where the body is print i = i + 1; when there is a condition and
\* print i = i < 3; when there is none, so that every loop ends
ForSource(initializer, condition, increment) ==
    <<"var", "i", "=", "1", ";", "for", "(">>
    \o (CASE initializer = "none" -> <<";">>
          [] initializer = "var" -> <<"var", "i", "=", "0", ";">>
          [] initializer = "expression" -> <<"i", "=", "0", ";">>)
    \o (IF condition THEN <<"i", "<", "3">> ELSE <<>>)
    \o <<";">>
    \o (IF increment THEN <<"i", "=", "i", "+", "1">> ELSE <<>>)
    \o <<")", "print", "i", "=", "i">>
    \o (IF condition THEN <<"+", "1">> ELSE <<"<", "3">>)
    \o <<";", "print", "i", ";">>

ForSources ==
    {ForSource(initializer, condition, increment) :
         initializer \in ForInitializers, condition \in BOOLEAN, increment \in BOOLEAN}

MaxForLines == 2

NextFor == ReadLine(ForSources, MaxForLines)

SpecFor == Init /\ [][NextFor]_vars

(***************************************************************************)
(* Lines that call, from a block with a variable a, a function with a      *)
(* parameter a whose return stands in nested statements.                   *)
(***************************************************************************)
ReturnNests == {"none", "body", "block", "if", "while", "while block", "while if"}

\* the statement that holds the return
ReturnNest(nest, ret) ==
    CASE nest = "none" -> <<>>
      [] nest = "body" -> ret
      [] nest = "block" -> <<"{">> \o ret \o <<"print", "0", ";", "}">>
      [] nest = "if" -> <<"if", "(", "a", "==", "1", ")">> \o ret
      [] nest = "while" -> <<"while", "(", "true", ")">> \o ret
      [] nest = "while block" ->
             <<"while", "(", "true", ")", "{", "print", "0", ";">> \o ret
                 \o <<"print", "0", ";", "}">>
      [] nest = "while if" ->
             <<"while", "(", "true", ")", "if", "(", "a", "==", "1", ")", "{">>
                 \o ret \o <<"}", "else", "print", "0", ";">>

\* fun f(a) { <nest with return [a];> print 3; } { var a = 2; print f(1); print a; }
ReturnNestSource(nest, value) ==
    <<"fun", "f", "(", "a", ")", "{">>
    \o ReturnNest(nest, IF value THEN <<"return", "a", ";">> ELSE <<"return", ";">>)
    \o <<"print", "3", ";", "}",
         "{", "var", "a", "=", "2", ";", "print", "f", "(", "1", ")", ";",
         "print", "a", ";", "}">>

ReturnNestSources ==
    {ReturnNestSource(nest, value) : nest \in ReturnNests, value \in BOOLEAN}

MaxReturnNestLines == 2

NextReturnNest == ReadLine(ReturnNestSources, MaxReturnNestLines)

SpecReturnNest == Init /\ [][NextReturnNest]_vars

(***************************************************************************)
(* Lines that declare classes and a variable z at top level, in a block    *)
(* and in a called function, and then complete or raise a runtime error.   *)
(***************************************************************************)
PointerPlaces == {"top", "block", "call"}

PointerClasses == {"none", "class", "subclass", "number superclass", "no superclass"}

\* the class declarations: none; class A; class A and class B < A, each with
\* a method; class B < n where n is 1; class B < U where U is not defined
PointerClass(class) ==
    CASE class = "none" -> <<>>
      [] class = "class" -> <<"class", "A", "{", "m", "(", ")", "{", "}", "}">>
      [] class = "subclass" ->
             <<"class", "A", "{", "m", "(", ")", "{", "}", "}",
               "class", "B", "<", "A", "{", "m", "(", ")", "{", "}", "}">>
      [] class = "number superclass" ->
             <<"var", "n", "=", "1", ";", "class", "B", "<", "n", "{", "}">>
      [] class = "no superclass" -> <<"class", "B", "<", "U", "{", "}">>

\* <place> <classes> var z = 1; [nil + 1;] print z; <end>
PointerSource(place, class, raising) ==
    (CASE place = "top" -> <<>>
       [] place = "block" -> <<"{">>
       [] place = "call" -> <<"fun", "f", "(", ")", "{">>)
    \o PointerClass(class)
    \o <<"var", "z", "=", "1", ";">>
    \o (IF raising THEN <<"nil", "+", "1", ";">> ELSE <<>>)
    \o <<"print", "z", ";">>
    \o (CASE place = "top" -> <<>>
          [] place = "block" -> <<"}">>
          [] place = "call" -> <<"}", "f", "(", ")", ";">>)

PointerSources ==
    {PointerSource(place, class, raising) :
         place \in PointerPlaces, class \in PointerClasses, raising \in BOOLEAN}

MaxPointerLines == 2

NextPointer == ReadLine(PointerSources, MaxPointerLines)

SpecPointer == Init /\ [][NextPointer]_vars

(***************************************************************************)
(* The resolver on statements: from a scope stack built as above, one      *)
(* statement is resolved, or a new resolver resolves a statement list.     *)
(* stmts is the list that was parsed and ppc the operation; nothing is     *)
(* done with a resolver after that.                                        *)
(***************************************************************************)
\* sources whose first statement is a declaration, a block, a function or a
\* class, with and without static errors
BalanceSources ==
    {<<"var", "a", "=", "1", ";">>,
     <<"{", "var", "a", "=", "1", ";", "var", "b", "=", "a", ";", "}">>,
     <<"{", "var", "a", "=", "a", ";", "}">>,
     <<"fun", "f", "(", "a", ")", "{", "var", "b", "=", "a", ";", "return", "b", ";", "}">>,
     <<"fun", "f", "(", "a", ",", "a", ")", "{", "}">>,
     <<"class", "A", "{", "m", "(", ")", "{", "return", "this", ";", "}", "}">>,
     <<"class", "B", "<", "A", "{", "m", "(", ")", "{", "return", "super", ".", "m", ";",
       "}", "}">>,
     <<"class", "A", "{", "init", "(", ")", "{", "return", "1", ";", "}", "}">>,
     <<"class", "A", "{", "m", "(", ")", "{", "super", ".", "m", ";", "}", "}">>,
     SelfInheritSource,
     <<"{", "return", "1", ";", "}", "this", ";">>,
     <<"{", "class", "A", "{", "m", "(", ")", "{", "this", ";", "}", "}",
       "fun", "f", "(", ")", "{", "{", "return", ";", "}", "}", "}">>,
     <<"var", "a", "=", "1", ";", "{", "var", "a", "=", "a", ";", "}",
       "class", "B", "<", "A", "{", "m", "(", ")", "{", "}", "}", "super", ".", "m", ";">>}

\* the statement list the parser makes of the source
Statements(source) ==
    Parser_parse(Parser_new(Scanner_scan_tokens(Scanner_new(source)).tokens, 1)).node

BalanceOperations == {"resolve statement", "resolve list"}

InitBalance == InitScopes

PushScope ==
    /\ ppc \notin BalanceOperations
    /\ BeginScope

AddName ==
    /\ ppc \notin BalanceOperations
    /\ DeclareName

\* self.resolve(statement) for the first statement of a source
ResolveStatement ==
    \E source \in BalanceSources :
        /\ ppc \notin BalanceOperations
        /\ resolver' = Resolver_resolve(resolver, Statements(source)[1])
        /\ ppc' = "resolve statement"
        /\ stmts' = Statements(source)
        /\ UNCHANGED <<parser, app>>

\* Resolver(interpreter, callback).resolve(statements)
ResolveList ==
    \E source \in BalanceSources :
        /\ ppc = "new"
        /\ resolver' = Resolver_resolve_list(Resolver_new(<<>>), Statements(source), 1)
        /\ ppc' = "resolve list"
        /\ stmts' = Statements(source)
        /\ UNCHANGED <<parser, app>>

NextBalance == PushScope \/ AddName \/ ResolveStatement \/ ResolveList

SpecBalance == InitBalance /\ [][NextBalance]_vars

(***************************************************************************)
(* Parser.parse step by step: each step is one iteration of its while      *)
(* loop.  ppc is the position in parse: "parse" in the loop, "done" after  *)
(* the return, "hung" inside a _declaration call that does not return.     *)
(***************************************************************************)
MaxTokens == 3
MaxStatements == 4

ParserLexemes == {"print", "var", "a", "1", ";", "{", "}"}

ParserSources == UNION {[1..n -> ParserLexemes] : n \in 0..MaxTokens}

InitParser ==
    /\ \E source \in ParserSources :
          parser = Parser_new(Scanner_scan_tokens(Scanner_new(source)).tokens, 1)
    /\ stmts = <<>>
    /\ ppc = "parse"
    /\ app = Application_new
    /\ resolver = IdleResolver

\* while not self._is_at_end(): statements.append(self._declaration())
ParseDeclaration ==
    /\ ppc = "parse"
    /\ ~Parser_is_at_end(parser)
    /\ Len(stmts) < MaxStatements
    /\ LET d == Parser_declaration(parser)
       IN  /\ parser' = [d EXCEPT !.node = NoneNode]
           /\ stmts' = IF d.diverged THEN stmts ELSE Append(stmts, d.node)
           /\ ppc' = IF d.diverged THEN "hung" ELSE "parse"
    /\ UNCHANGED <<app, resolver>>

\* return statements
ParseReturn ==
    /\ ppc = "parse"
    /\ Parser_is_at_end(parser)
    /\ ppc' = "done"
    /\ UNCHANGED <<parser, stmts, app, resolver>>

NextParser == ParseDeclaration \/ ParseReturn

SpecParser == InitParser /\ [][NextParser]_vars

\* C4: parse terminates on every token list ending in EOF: no call of
\* _declaration fails to return, and each iteration of the loop that is
\* followed by another has moved the token position forward, after a syntax
\* error too.
C4_ParseTerminates ==
    [][ppc = "parse" =>
          /\ ppc' # "hung"
          /\ ppc' = "parse" => parser'.current > parser.current]_vars

(***************************************************************************)
(* Properties of the read-eval-print loop.                                 *)
(***************************************************************************)
Interpreted == "interpreter" \in {app.stages[k] : k \in DOMAIN app.stages}

GlobalValues == app.interpreter.envs[Globals].values

\* the name a top-level statement defines in the current environment
DefinedName(statement) ==
    IF statement.kind \in {"Var", "Function", "Class"} THEN {statement.name.lexeme}
    ELSE {}

\* C1: execute_block leaves _environment as it found it on every exit path:
\* each call of execute_block made by the last interpret, whether it
\* completed, was left by a Return or was left by a runtime error, ended with
\* the interpreter's environment pointer equal to its value on entry.
C1_BlockRestoresEnvironment ==
    \A k \in DOMAIN app.interpreter.blocks :
        app.interpreter.blocks[k].exit = app.interpreter.blocks[k].entry

\* one interpret in which blocks were left in all three ways, from
\* environments other than the global one too
C1_Witness ==
    /\ \A way \in {"none", "return", "error"} :
          \E k \in DOMAIN app.interpreter.blocks :
              /\ app.interpreter.blocks[k].sig = way
              /\ app.interpreter.blocks[k].entry # Globals
    /\ app.interpreter.env = Globals

\* C2: a runtime error in interpret ends the statement list there: no
\* statement is executed after the one that raised, the callback is called
\* once, with that error, the names the earlier statements defined are bound
\* in the global environment, and the interpreter is ready for the next list
\* (a list without an error is executed to its end, also after a failed one).
C2_RuntimeErrorAbortsList ==
    LET i == app.interpreter
        n == Len(i.executed)
    IN  (Interpreted /\ app.status = "prompt") =>
          /\ \A k \in 1..n : i.executed[k].index = k
          /\ \A k \in 1..n : i.executed[k].sig = "error" => k = n
          /\ IF n > 0 /\ i.executed[n].sig = "error"
             THEN i.callback = <<i.executed[n].err>> /\ app.had_runtime_error
             ELSE i.callback = <<>> /\ n = Len(app.statements)
          /\ \A k \in 1..n : i.executed[k].sig = "none" =>
                 DefinedName(app.statements[k]) \subseteq DOMAIN GlobalValues
          /\ i.env = Globals /\ i.sig = "none"

\* a list whose third statement failed, leaving statements behind it, after
\* which a later line printed the globals the first two had defined
C2_Witness ==
    /\ app.history = <<BlockErrorSource, LaterLineSource>>
    /\ app.had_runtime_error
    /\ app.interpreter.out = <<"1", "2">>
    /\ Len(app.interpreter.executed) = 3
    /\ {"a", "h", "b", "d"} \subseteq DOMAIN GlobalValues
    /\ "c" \notin DOMAIN GlobalValues

StageDiagnostics(stage) ==
    {k \in DOMAIN app.diagnostics : app.diagnostics[k].stage = stage}

\* C3: in run, a stage that reported an error is the last stage of the run:
\* after a scanner error the parser is not run, after a parser error the
\* resolver is not run, after a resolver error the interpreter is not run.
C3_ErrorSkipsNextStage ==
    \A k \in DOMAIN app.stages :
        StageDiagnostics(app.stages[k]) # {} => k = Len(app.stages)

(***************************************************************************)
(* Properties of closures.                                                 *)
(***************************************************************************)
LastLine == app.history[Len(app.history)]

\* environments other than the global one that bind the name
LocalBindings(name) ==
    {e \in DOMAIN app.interpreter.envs :
        e # Globals /\ name \in DOMAIN app.interpreter.envs[e].values}

\* C5: a function declared in a block while only the global x exists reads
\* the global x in every call, also in the calls made after a local x has
\* been declared in that block: every line f printed is the global's value.
C5_LexicalBindingStable ==
    (app.history # <<>> /\ LastLine \in BindingSources /\ Interpreted) =>
        /\ app.interpreter.executed[Len(app.interpreter.executed)].sig = "none"
        /\ \E before \in 0..1, after \in 1..3 :
              /\ LastLine \in {BindingSource(g, "'local'", before, after) :
                                  g \in {"'global'", "'a'"}}
              /\ Len(app.interpreter.out) = before + after
        /\ \A k \in DOMAIN app.interpreter.out :
              app.interpreter.out[k] =
                  Interpreter_stringify(app.interpreter, GlobalValues["x"])

\* f was called before and after the declaration of the local x, which is
\* bound to another value than the global x
C5_Witness ==
    /\ app.history # <<>> /\ LastLine = BindingSource("'global'", "'local'", 1, 2)
    /\ app.interpreter.out = <<"global", "global", "global">>
    /\ \E e \in LocalBindings("x") :
          app.interpreter.envs[e].values["x"] = StrV("local")

\* the lines since the factory was last run that called the counter
CallsOf(counter) ==
    LET made == {k \in DOMAIN app.history : app.history[k] = FactorySource}
        last == CHOOSE k \in made : \A j \in made : j <= k
    IN  Cardinality({k \in DOMAIN app.history :
                        k > last /\ app.history[k] = CounterSource(counter)})

\* the environment a global function closes over
ClosureOf(name) == app.interpreter.funs[GlobalValues[name].f].closure

\* C6: the two counters made by two calls of the factory close over two
\* environments, each made by its call of the factory, and the variable in
\* each counts the calls of its own counter only.
C6_ClosuresIndependent ==
    (\E k \in DOMAIN app.history : app.history[k] = FactorySource) =>
        /\ ClosureOf("c") # ClosureOf("d")
        /\ ClosureOf("c") # Globals /\ ClosureOf("d") # Globals
        /\ \A counter \in {"c", "d"} :
              /\ app.interpreter.envs[ClosureOf(counter)].values["i"]
                     = NumV(CallsOf(counter))
              /\ (LastLine = CounterSource(counter)) =>
                     app.interpreter.out = <<ToString(CallsOf(counter))>>

\* one counter called twice and the other once, interleaved
C6_Witness ==
    /\ app.history = <<FactorySource, CounterSource("c"), CounterSource("d"),
                       CounterSource("c")>>
    /\ app.interpreter.out = <<"2">>
    /\ app.interpreter.envs[ClosureOf("d")].values["i"] = NumV(1)

(***************************************************************************)
(* Properties of classes.                                                  *)
(***************************************************************************)
\* the classes declared by the lines (the standard library's come first)
UserClasses ==
    {c \in DOMAIN app.interpreter.classes : c > Len(STANDARD_LIBRARY.classes)}

Completed ==
    /\ app.history # <<>> /\ Interpreted /\ app.status = "prompt"
    /\ app.interpreter.callback = <<>>

\* C7: every method named init, and no other method, is made with
\* is_initializer true, and a call of init on an instance evaluates to that
\* instance, with or without a return statement in init.
C7_InitReturnsThis ==
    /\ \A c \in UserClasses :
          \A name \in DOMAIN app.interpreter.classes[c].methods :
              app.interpreter.funs[app.interpreter.classes[c].methods[name].f]
                  .is_initializer = (name = "init")
    /\ (Completed /\ LastLine \in DirectInitSources) =>
          GlobalValues["r"] = GlobalValues["a"]

\* C8: every call of a class evaluates to the instance the call made, an
\* instance of that class not returned by another call; in the lines that
\* construct, o is an instance of the class named in the call, and init, where
\* there is one, has run on it up to its `return;`.
C8_ClassCallReturnsInstance ==
    LET made == app.interpreter.constructed
    IN  /\ \A k \in DOMAIN made :
              /\ made[k].value = InstanceV(made[k].instance)
              /\ app.interpreter.instances[made[k].instance].class = made[k].class
              /\ \A j \in DOMAIN made : made[j].value = made[k].value => j = k
        /\ (Completed /\ LastLine \in ConstructionSources) =>
              /\ GlobalValues["o"].t = "instance"
              /\ LET o == app.interpreter.instances[GlobalValues["o"].i]
                     name == app.interpreter.classes[o.class].name
                 IN  CASE LastLine = InitReturnSource ->
                              /\ name = "Foo" /\ o.fields = [v |-> NumV(1)]
                              /\ GlobalValues["p"] # GlobalValues["o"]
                       [] LastLine = InheritedInitSource ->
                              name = "B" /\ o.fields = [v |-> NumV(2)]
                       [] LastLine = NoInitSource -> name = "C" /\ o.fields = <<>>

\* each of the three constructions has happened: init leaving by `return;`,
\* init inherited, and no init
C8_Witness ==
    /\ Completed /\ LastLine = InitReturnSource
    /\ Len(app.interpreter.constructed) = 2
    /\ app.interpreter.out = <<"1">>
    /\ Len(app.history) = 2 /\ app.history[1] = InheritedInitSource

\* C9: super.m in a method of B runs the m of A, the superclass of the class
\* that declares the method, whatever the receiver's class and whether or not
\* B or C override m, and runs it on the receiver: it prints a and returns
\* the instance t was called on.
C9_SuperDispatch ==
    (app.history # <<>> /\ LastLine \in SuperSources /\ Interpreted) =>
        /\ app.interpreter.callback = <<>>
        /\ app.interpreter.out = <<"a">>
        /\ GlobalValues["o"].t = "instance"
        /\ GlobalValues["r"] = GlobalValues["o"]

\* t was called on an instance of C while both B and C override m
C9_Witness ==
    /\ app.history # <<>> /\ LastLine = SuperSource("C", TRUE, TRUE)
    /\ app.interpreter.out = <<"a">>
    /\ GlobalValues["r"].t = "instance"
    /\ app.interpreter.classes[
           app.interpreter.instances[GlobalValues["r"].i].class].name = "C"

(***************************************************************************)
(* Properties of equality.                                                 *)
(***************************************************************************)
\* the runtime type of a value
TypeOf(v) == IF v.t \in {"fun", "native", "anonfun"} THEN "callable" ELSE v.t

\* C10: == on two values of different runtime types is false and != is true
\* (so true == 1 and nil == false are false), and nil == nil is true.
C10_MixedTypesUnequal ==
    (Completed /\ LastLine \in EqualitySources) =>
        /\ TypeOf(GlobalValues["x"]) # TypeOf(GlobalValues["y"]) =>
              GlobalValues["r"] = BoolV(FALSE) /\ GlobalValues["s"] = BoolV(TRUE)
        /\ (GlobalValues["x"] = NilV /\ GlobalValues["y"] = NilV) =>
              GlobalValues["r"] = BoolV(TRUE) /\ GlobalValues["s"] = BoolV(FALSE)

(***************************************************************************)
(* Properties of the operators.                                            *)
(***************************************************************************)
DiagnosticMessages == [k \in DOMAIN app.diagnostics |-> app.diagnostics[k].message]

\* the last interpret ended in its k-th statement, which raised a runtime error
StatementRaised(k) ==
    /\ Len(app.interpreter.executed) = k
    /\ app.interpreter.executed[k].sig = "error"

\* C11: x + y is the numeric sum when both are numbers and the concatenation
\* when both are strings; for every other pair of types the statement ends
\* with the runtime error "Operands must be two numbers or two strings.",
\* reported once at the + token, and the declaration of r and the print after
\* it are not completed.
C11_PlusDispatch ==
    (app.history # <<>> /\ LastLine \in PlusSources) =>
        /\ Interpreted /\ app.status = "prompt"
        /\ LET x == GlobalValues["x"]
               y == GlobalValues["y"]
           IN  CASE x.t = "num" /\ y.t = "num" ->
                        /\ GlobalValues["r"] = NumV(x.n + y.n)
                        /\ app.interpreter.out = <<ToString(x.n + y.n)>>
                        /\ app.diagnostics = <<>>
                 [] x.t = "str" /\ y.t = "str" ->
                        /\ GlobalValues["r"] = StrV(x.s \o y.s)
                        /\ app.interpreter.out = <<x.s \o y.s>>
                        /\ app.diagnostics = <<>>
                 [] OTHER ->
                        /\ StatementRaised(6)
                        /\ app.interpreter.out = <<>>
                        /\ app.had_runtime_error
                        /\ DiagnosticMessages =
                               <<"Operands must be two numbers or two strings.">>
                        /\ app.interpreter.callback[1].token.type = "PLUS"

\* a number and a string were added, in that order, and the line ended with
\* the error
C11_Witness ==
    /\ app.history = <<PlusSource("1", "'a'")>>
    /\ GlobalValues["x"] = NumV(1) /\ GlobalValues["y"] = StrV("a")
    /\ app.had_runtime_error
    /\ "r" \notin DOMAIN GlobalValues

LogicalTruthy(v) == v \notin {NilV, BoolV(FALSE)}

\* the value the lexeme of a right operand denotes
LogicalRightValue(b) ==
    CASE b = "nil" -> NilV
      [] b = "false" -> BoolV(FALSE)
      [] b = "true" -> BoolV(TRUE)
      [] b = "0" -> NumV(0)
      [] b = "''" -> StrV("")
      [] b = "'b'" -> StrV("b")

\* C12: `x or t(b)` is x, and t is not called, when x is truthy; `x and t(b)`
\* is x, and t is not called, when x is falsy; otherwise t is called exactly
\* once and its value is the result.  Only nil and false are falsy: 0 and
\* the empty string are truthy.
C12_ShortCircuit ==
    \A a \in LogicalLeftOperands, b \in LogicalRightOperands,
       operator \in {"or", "and"} :
        (app.history # <<>> /\ LastLine = LogicalSource(a, operator, b)) =>
            /\ Completed
            /\ LET x == GlobalValues["x"]
                   r == GlobalValues["r"]
                   out == app.interpreter.out
               IN  IF LogicalTruthy(x) = (operator = "or")
                   THEN r = x /\ out = <<>>
                   ELSE r = LogicalRightValue(b) /\ Len(out) = 1

\* the empty string was a truthy left operand: `'' and t('b')` called t once
\* and is t's value
C12_Witness ==
    /\ Len(app.history) = 1
    /\ LastLine = LogicalSource("''", "and", "'b'")
    /\ GlobalValues["x"] = StrV("")
    /\ GlobalValues["r"] = StrV("b")
    /\ app.interpreter.out = <<"b">>

(***************************************************************************)
(* Properties of the process.                                              *)
(***************************************************************************)
FileMode == app.args = 1
Ended == app.status \in {"exited", "crashed"}

\* C13: running the file `class X < X {}` reports the one static error "A
\* class can't inherit from itself." from the resolver, the interpreter is not
\* run, and the process exits with code 65.
C13_SelfInheritanceReported ==
    (FileMode /\ app.history = <<SelfInheritSource>>) =>
        /\ DiagnosticMessages = <<"A class can't inherit from itself.">>
        /\ app.diagnostics[1].stage = "resolver"
        /\ app.had_error
        /\ ~Interpreted
        /\ app.status = "exited" /\ app.exit_code = 65

StaticDiagnostics ==
    StageDiagnostics("scanner") \cup StageDiagnostics("parser")
        \cup StageDiagnostics("resolver")

\* C15: with one argument the process ends, with code 65 when the scanner,
\* the parser or the resolver reported an error, with code 70 when a runtime
\* error was reported, and with code 0 otherwise; with two or more arguments
\* it ends with code 64 and no source was run.
C15_ExitCodes ==
    /\ FileMode =>
          /\ app.status = "exited"
          /\ app.exit_code = IF StaticDiagnostics # {} THEN 65
                             ELSE IF StageDiagnostics("interpreter") # {} THEN 70
                             ELSE 0
    /\ app.args >= 2 =>
          app.status = "exited" /\ app.exit_code = 64 /\ app.history = <<>>

\* C16: whenever run_prompt waits for a line both flags are false, whatever
\* the lines before reported.
C16_FlagsResetAfterLine ==
    app.status = "prompt" => ~app.had_error /\ ~app.had_runtime_error

(***************************************************************************)
(* Properties of the resolver.                                             *)
(***************************************************************************)
\* C14: the resolver reports "Can't return from top-level code." for a return
\* exactly when it stands in no function or method body, also after a
\* completed function or class declaration, and reports "Can't return a value
\* from an initializer." for a return with a value directly in a method init;
\* every other return is resolved without an error.
C14_ReturnErrors ==
    \A context \in ReturnContexts, value \in BOOLEAN :
        (app.history # <<>> /\ LastLine = ReturnSource(context, value)) =>
            /\ app.status = "prompt"
            /\ \A k \in DOMAIN app.diagnostics : app.diagnostics[k].stage = "resolver"
            /\ DiagnosticMessages =
                   IF context \in TopLevelContexts
                   THEN <<"Can't return from top-level code.">>
                   ELSE IF context \in InitContexts /\ value
                   THEN <<"Can't return a value from an initializer.">>
                   ELSE <<>>

\* a return after a completed function declaration was reported, on a line
\* after one whose return in a function body was not
C14_Witness ==
    /\ app.history = <<ReturnSource("function", TRUE),
                       ReturnSource("after function", FALSE)>>
    /\ DiagnosticMessages = <<"Can't return from top-level code.">>
    /\ app.diagnostics[1].stage = "resolver"
    /\ ~Interpreted

(***************************************************************************)
(* Properties of calls.                                                    *)
(***************************************************************************)
\* the number of parameters of a callee that can be called, -1 for the others
CalleeArity(callee) ==
    CASE callee \in {"f0", "A"} -> 0
      [] callee \in {"f1", "B", "str"} -> 1
      [] callee = "f2" -> 2
      [] OTHER -> -1

\* what print writes for the callee
CalleeText(callee) ==
    CASE callee \in {"f0", "f1", "f2"} -> "<fn " \o callee \o ">"
      [] callee = "str" -> "<AnonymousCallable object>"
      [] callee = "'a'" -> "a"
      [] OTHER -> callee

\* what the evaluation of t(1), ..., t(m) prints
ArgumentTexts(m) == [k \in 1..m |-> ToString(k)]

\* C17: a call of a callee of N parameters with M # N arguments raises the
\* runtime error "Expected N arguments but got M." at the closing parenthesis
\* of the call, and the callee's body does not run.
C17_ArityMessage ==
    \A callee \in Callees, m \in 0..MaxCallArguments :
        (/\ app.history # <<>> /\ LastLine = CallSource(callee, m)
         /\ CalleeArity(callee) \notin {-1, m}) =>
            /\ DiagnosticMessages =
                   <<"Expected " \o ToString(CalleeArity(callee))
                        \o " arguments but got " \o ToString(m) \o ".">>
            /\ app.interpreter.callback[1].token.type = "RIGHT_PAREN"
            /\ app.interpreter.out = <<CalleeText(callee)>> \o ArgumentTexts(m)

\* C18: the callee is evaluated first, then the arguments from left to right,
\* and only then is the callee checked: the callee's and every argument's
\* output is there, in source order, also when the call fails because the
\* callee is not callable or the number of arguments is not its arity; the
\* body's output follows only when the call is made.
C18_CallEvaluationOrder ==
    \A callee \in Callees, m \in 0..MaxCallArguments :
        (app.history # <<>> /\ LastLine = CallSource(callee, m)) =>
            LET evaluated == <<CalleeText(callee)>> \o ArgumentTexts(m)
            IN  /\ app.status = "prompt" /\ Interpreted
                /\ CASE CalleeArity(callee) = -1 ->
                            /\ app.interpreter.out = evaluated
                            /\ DiagnosticMessages =
                                   <<"Can only call functions and classes.">>
                            /\ StatementRaised(Len(app.statements))
                     [] CalleeArity(callee) \notin {-1, m} ->
                            /\ app.interpreter.out = evaluated
                            /\ Len(app.diagnostics) = 1
                            /\ app.interpreter.callback[1].token.type = "RIGHT_PAREN"
                            /\ StatementRaised(Len(app.statements))
                     [] OTHER ->
                            /\ app.interpreter.out =
                                   evaluated \o (IF callee \in {"f0", "f1", "f2", "B"}
                                                 THEN <<"b">> ELSE <<>>)
                            /\ app.diagnostics = <<>>
                            /\ Len(app.interpreter.executed) = Len(app.statements)

\* a value that is not callable was called with two arguments: both were
\* evaluated, in order, before the call failed
C18_Witness ==
    /\ app.history # <<>> /\ LastLine = CallSource("nil", 2)
    /\ app.interpreter.out = <<"nil", "1", "2">>
    /\ DiagnosticMessages = <<"Can only call functions and classes.">>

(***************************************************************************)
(* Properties of environments.                                             *)
(***************************************************************************)
RECURSIVE FrameChain(_, _)
\* the frames from e outwards, innermost first
FrameChain(envs, e) ==
    IF e = 0 THEN <<>> ELSE <<e>> \o FrameChain(envs, envs[e].enclosing)

\* the indices in the chain of the frames that have the name
Holders(envs, e, name) ==
    {k \in DOMAIN FrameChain(envs, e) :
        name \in DOMAIN envs[FrameChain(envs, e)[k]].values}

\* C19: a step that is assign(name, value) on frame e gives the value to the
\* innermost frame of e's chain that has the name and changes nothing else;
\* when no frame of the chain has the name it raises "Undefined variable" and
\* changes no frame.  A step that is define(name, value) on frame e changes
\* frame e only: the name is bound to the value there, its other names and
\* every other frame, the enclosing ones included, are as before.
C19_AssignChangesOneFrame ==
    [][\A e \in DOMAIN app.interpreter.envs, name \in EnvironmentNames,
          value \in EnvironmentValues :
           LET old == app.interpreter.envs
               new == app'.interpreter.envs
               chain == FrameChain(old, e)
               holders == Holders(old, e, name)
           IN  /\ app'.interpreter =
                      Environment_assign(Caught(app.interpreter), e,
                                         Token("IDENTIFIER", name, NilV, 1), value)
                  => IF holders = {}
                     THEN /\ new = old
                          /\ app'.interpreter.sig = "error"
                          /\ app'.interpreter.err.message =
                                 "Undefined variable '" \o name \o "'."
                     ELSE LET target == chain[CHOOSE k \in holders :
                                                 \A j \in holders : k <= j]
                          IN  /\ app'.interpreter.sig = "none"
                              /\ DOMAIN new = DOMAIN old
                              /\ \A f \in DOMAIN old : f # target => new[f] = old[f]
                              /\ new[target].enclosing = old[target].enclosing
                              /\ DOMAIN new[target].values = DOMAIN old[target].values
                              /\ new[target].values[name] = value
                              /\ \A n \in DOMAIN old[target].values :
                                     n # name =>
                                         new[target].values[n] = old[target].values[n]
               /\ app'.interpreter =
                      Environment_define(Caught(app.interpreter), e, name, value)
                  => /\ app'.interpreter.sig = "none"
                     /\ DOMAIN new = DOMAIN old
                     /\ \A f \in DOMAIN old : f # e => new[f] = old[f]
                     /\ new[e].enclosing = old[e].enclosing
                     /\ DOMAIN new[e].values = DOMAIN old[e].values \cup {name}
                     /\ new[e].values[name] = value
                     /\ \A n \in DOMAIN old[e].values :
                            n # name => new[e].values[n] = old[e].values[n]]_vars

\* an assign on an inner frame has failed for a name no frame of its chain
\* has, while another name is bound in both frames, with different values
C19_Witness ==
    /\ Len(app.interpreter.envs) = 2
    /\ app.interpreter.envs[2].enclosing = 1
    /\ app.interpreter.sig = "error"
    /\ app.interpreter.err.message = "Undefined variable 'a'."
    /\ app.interpreter.envs[1].values = [b |-> NumV(2)]
    /\ app.interpreter.envs[2].values = [b |-> NumV(1)]

(***************************************************************************)
(* Properties of the cap on parameters and arguments.                      *)
(***************************************************************************)
\* the number of items of the list in the source
ItemCount ==
    Cardinality({i \in DOMAIN parser.tokens :
                    /\ i > 2
                    /\ parser.tokens[i].type \in {"IDENTIFIER", "NUMBER"}})

\* the i-th item of the list in the source
ItemToken(i) ==
    parser.tokens[(IF parser.tokens[1].type = "FUN" THEN 2 ELSE 1) + 2 * i]

CapMessage ==
    IF parser.tokens[1].type = "FUN" THEN "Can't have more than 255 parameters."
    ELSE "Can't have more than 255 arguments."

\* C20: parsing a list of n parameters or arguments never raises a
\* ParseError; when the Function or Call node is returned, an error "Can't
\* have more than 255 ..." has been reported if and only if n > 255 and no
\* other error has been, and the node has all n items in the source's order.
C20_ArityCap ==
    /\ ppc \notin {"raised", "hung"}
    /\ ~parser.exc
    /\ ppc = "done" =>
           /\ (\E k \in DOMAIN parser.errors : parser.errors[k].message = CapMessage)
                  <=> ItemCount > 255
           /\ \A k \in DOMAIN parser.errors : parser.errors[k].message = CapMessage
           /\ IF parser.tokens[1].type = "FUN"
              THEN /\ parser.node.kind = "Function"
                   /\ Len(parser.node.params) = ItemCount
                   /\ \A i \in 1..ItemCount : parser.node.params[i] = ItemToken(i)
              ELSE /\ parser.node.kind = "Call"
                   /\ Len(parser.node.arguments) = ItemCount
                   /\ \A i \in 1..ItemCount :
                          /\ parser.node.arguments[i].kind = "Literal"
                          /\ parser.node.arguments[i].value = ItemToken(i).literal

\* a call with 256 arguments has been parsed: one error, reported at the
\* 256th argument, and a Call node with 256 arguments
C20_Witness ==
    /\ ppc = "done"
    /\ parser.node.kind = "Call"
    /\ Len(parser.node.arguments) = 256
    /\ Len(parser.errors) = 1
    /\ parser.errors[1].token = ItemToken(256)

(***************************************************************************)
(* Properties of the host functions.                                       *)
(***************************************************************************)
\* the types a host function takes
SupportedTypes(builtin) ==
    IF builtin \in {"str", "float"} THEN {"'a'", "0"} ELSE {"0"}

\* C21: a line that calls a host function with an argument of a type it does
\* not take ends with one runtime error reported through the error callback:
\* run returns, had_runtime_error is set and nothing is printed.
C21_BuiltinTypeError ==
    \A builtin \in Builtins, argument \in BuiltinArguments :
        (/\ app.history = <<BuiltinSource(builtin, argument)>>
         /\ argument \notin SupportedTypes(builtin)) =>
            /\ app.status = "prompt"
            /\ app.had_runtime_error
            /\ Len(app.interpreter.callback) = 1
            /\ app.interpreter.out = <<>>

(***************************************************************************)
(* Properties of property access.                                          *)
(***************************************************************************)
\* the last statement of the last line completed
LastStatementCompleted ==
    /\ Len(app.interpreter.executed) = Len(app.statements)
    /\ app.interpreter.executed[Len(app.statements)].sig = "none"

\* the method m of the class named owner, as the class declaration made it
MethodOf(owner) == app.interpreter.classes[GlobalValues[owner].c].methods["m"]

\* C22: i.p evaluates to the field p of the instance i when it has one, also
\* when its class has a method p; otherwise to the method p of the nearest
\* class from i's class upwards that has one, as a new function with the
\* method's declaration whose closure is a new frame that holds only this = i
\* and encloses the method's closure, which itself is as before; otherwise it
\* raises "Undefined property 'p'.".  When i is no instance it raises "Only
\* instances have properties.".
C22_PropertyAccess ==
    \A b_overrides \in BOOLEAN, property \in Properties :
        /\ \A receiver \in OtherReceivers :
               (app.history # <<>> /\
                LastLine = PropertySource(receiver, FALSE, FALSE, FALSE, property))
                   => /\ StatementRaised(Len(app.statements))
                      /\ DiagnosticMessages = <<"Only instances have properties.">>
        /\ \A receiver \in InstanceReceivers, field \in BOOLEAN :
               (app.history # <<>> /\
                LastLine = PropertySource(receiver, TRUE, b_overrides, field, property))
                   => IF field
                      THEN LastStatementCompleted /\ GlobalValues["r"] = NumV(1)
                      ELSE IF property = "n"
                      THEN /\ StatementRaised(Len(app.statements))
                           /\ DiagnosticMessages = <<"Undefined property 'n'.">>
                      ELSE LET owner == IF receiver = "B" /\ b_overrides
                                        THEN "B" ELSE "A"
                               funs == app.interpreter.funs
                               envs == app.interpreter.envs
                               r == GlobalValues["r"]
                           IN  /\ LastStatementCompleted
                               /\ r.t = "fun"
                               /\ r # MethodOf(owner)
                               /\ funs[r.f].declaration =
                                      funs[MethodOf(owner).f].declaration
                               /\ funs[r.f].closure = Len(envs)
                               /\ envs[funs[r.f].closure].values =
                                      [n \in {"this"} |-> GlobalValues["i"]]
                               /\ envs[funs[r.f].closure].enclosing =
                                      funs[MethodOf(owner).f].closure
                               /\ "this" \notin
                                      DOMAIN envs[funs[MethodOf(owner).f].closure].values

\* an instance of B, which overrides m, has a field m, and i.m gave the field
C22_Witness ==
    /\ app.history # <<>>
    /\ LastLine = PropertySource("B", TRUE, TRUE, TRUE, "m")
    /\ LastStatementCompleted
    /\ GlobalValues["r"] = NumV(1)
    /\ "m" \in DOMAIN app.interpreter.classes[GlobalValues["B"].c].methods

(***************************************************************************)
(* Properties of resolved lookups.                                         *)
(***************************************************************************)
\* C23: when the resolver has accepted the line, every get_at and assign_at
\* the interpreter makes reaches a frame (the chain has at least distance
\* links) in which the name is bound already, and no lookup ends the run
\* with a host exception.
C23_ResolvedNamesBound ==
    (Interpreted /\ StaticDiagnostics = {}) =>
        /\ \A k \in DOMAIN app.interpreter.resolved :
               app.interpreter.resolved[k].frame = "bound"
        /\ app.status = "prompt"
        /\ app.interpreter.sig = "none"

\* a function declared in a method of a subclass has returned super.m: super
\* was found three frames out and this two frames out; the line before, a
\* function assigned a variable of the block around it
C23_Witness ==
    /\ app.history # <<>> /\ Interpreted
    /\ Len(app.history) = 2
    /\ app.history[1] = ScopeSource(TRUE, TRUE, FALSE, "assign")
    /\ LastLine = MethodSource("super", "function")
    /\ \E k \in DOMAIN app.interpreter.resolved :
           /\ app.interpreter.resolved[k].name = "super"
           /\ app.interpreter.resolved[k].distance = 3
    /\ \E k \in DOMAIN app.interpreter.resolved :
           /\ app.interpreter.resolved[k].name = "this"
           /\ app.interpreter.resolved[k].distance = 2
    /\ GlobalValues["r"].t = "fun"
    /\ app.interpreter.funs[GlobalValues["r"].f].declaration.name.lexeme = "m"

(***************************************************************************)
(* Properties of the resolver's scope stack.                               *)
(***************************************************************************)
\* the indices of the scopes that have the name
ScopesWith(name) ==
    {i \in DOMAIN resolver.scopes : name \in DOMAIN resolver.scopes[i]}

\* C24: a step that is _resolve_local of an expression for a name records
\* for the expression the number of scopes between the innermost scope and the
\* innermost scope that has the name (0 when the innermost scope has it),
\* whatever outer scopes have the name too, and changes nothing else; when no
\* scope has the name the side table is as before, so the expression has no
\* distance unless an earlier resolution gave it one.
C24_ResolveLocalDistance ==
    [][ppc' = "resolve_local" =>
           LET name == stmts'[1]
               id == ScopeExpression(name).id
           IN  /\ resolver'.scopes = resolver.scopes
               /\ resolver'.errors = resolver.errors
               /\ IF ScopesWith(name) = {}
                  THEN resolver'.locals = resolver.locals
                  ELSE /\ DOMAIN resolver'.locals = DOMAIN resolver.locals \cup {id}
                       /\ resolver'.locals[id] =
                              Len(resolver.scopes) - Max(ScopesWith(name))
                       /\ \A x \in DOMAIN resolver.locals :
                              x # id => resolver'.locals[x] = resolver.locals[x]]_vars

\* the name is in the outermost and in the innermost of three scopes, and the
\* expression has been resolved to the innermost
C24_Witness ==
    /\ ppc = "resolve_local"
    /\ stmts = <<"a">>
    /\ Len(resolver.scopes) = 3
    /\ ScopesWith("a") = {1, 3}
    /\ resolver.locals[ScopeExpression("a").id] = 0

(***************************************************************************)
(* Properties of declarations.                                             *)
(***************************************************************************)
\* n times the message
RECURSIVE Times(_, _)
Times(message, n) == IF n = 0 THEN <<>> ELSE <<message>> \o Times(message, n - 1)

\* C25: in a block or a function body every declaration of a name that the
\* same scope already has (from an earlier declaration or from a parameter) is
\* reported with "Already a variable with this name in this scope.", and a
\* declaration whose initializer reads the declared name is reported with
\* "Can't read local variable in its own initializer.", also when an enclosing
\* scope has the name; a read after the declaration is not reported.  At
\* global level nothing is reported, no expression of the line is given a
\* distance and the line runs.
C25_DeclareDefine ==
    \A place \in DeclarationPlaces, prior \in BOOLEAN,
       initializer \in DeclarationInitializers :
        (app.history # <<>> /\ LastLine = DeclarationSource(place, prior, initializer)) =>
            IF place = "global"
            THEN /\ app.diagnostics = <<>>
                 /\ LastStatementCompleted
                 /\ \A id \in DOMAIN app.interpreter.locals : id[1] # Len(app.history)
            ELSE /\ DiagnosticMessages =
                        Times("Already a variable with this name in this scope.",
                              (IF place = "parameter" /\ prior THEN 1 ELSE 0)
                              + (IF place = "parameter" \/ prior THEN 1 ELSE 0))
                        \o Times("Can't read local variable in its own initializer.",
                                 IF initializer = "a" THEN 1 ELSE 0)
                 /\ \A k \in DOMAIN app.diagnostics :
                        app.diagnostics[k].stage = "resolver"
                 /\ app.diagnostics # <<>> =>
                        app.stages = <<"scanner", "parser", "resolver">>

\* a block whose only declaration of a reads a in its initializer was reported
C25_Witness ==
    /\ app.history # <<>>
    /\ LastLine = DeclarationSource("block", FALSE, "a")
    /\ DiagnosticMessages = <<"Can't read local variable in its own initializer.">>

(***************************************************************************)
(* Properties of this and super.                                           *)
(***************************************************************************)
\* the innermost class declaration whose body holds the place: none, one
\* without a superclass, one with a superclass
EnclosingClass(place) ==
    CASE place \in {"top", "function", "after_class", "after_subclass"} -> "NONE"
      [] place \in {"method", "function_in_method", "class_in_submethod",
                    "after_subclass_in_method"} -> "CLASS"
      [] place \in {"submethod", "after_class_in_submethod",
                    "subclass_in_method"} -> "SUBCLASS"

\* C26: this is reported with "Can't use 'this' outside of a class." exactly
\* when no class body holds it; super is reported with "Can't use 'super'
\* outside of a class." when no class body holds it and with "Can't use
\* 'super' in a class with no superclass." when the innermost class that
\* holds it has no superclass, whatever the classes around that class and
\* the classes declared ahead of the use are; nothing else is reported.
C26_ThisSuperErrors ==
    \A keyword \in ClassKeywords, place \in KeywordPlaces :
        (app.history # <<>> /\ LastLine = KeywordSource(keyword, place)) =>
            DiagnosticMessages =
                CASE EnclosingClass(place) = "NONE" /\ keyword = "this" ->
                         <<"Can't use 'this' outside of a class.">>
                  [] EnclosingClass(place) = "NONE" /\ keyword = "super" ->
                         <<"Can't use 'super' outside of a class.">>
                  [] EnclosingClass(place) = "CLASS" /\ keyword = "super" ->
                         <<"Can't use 'super' in a class with no superclass.">>
                  [] OTHER -> <<>>

\* super behind a class without superclass, in a method of a subclass, was
\* accepted, and this behind a class was reported
C26_Witness ==
    /\ Len(app.history) = 2
    /\ app.history[1] = KeywordSource("this", "after_class")
    /\ LastLine = KeywordSource("super", "after_class_in_submethod")
    /\ app.diagnostics = <<>>
    /\ LastStatementCompleted

(***************************************************************************)
(* Properties of the for statement.                                        *)
(***************************************************************************)
\* C27: the statement parsed from for (init; cond; incr) body is
\* While(cond, body) where cond is the literal true when the condition is
\* absent and body is Block[body, Expression(incr)] when there is an increment,
\* and this While is the second statement of a Block behind the initializer
\* when there is an initializer.  Run, the loop executes the increment after
\* the body in every iteration, and a variable declared in the initializer
\* is gone behind the loop: the print behind the loop shows the global i.
C27_ForDesugared ==
    \A initializer \in ForInitializers, condition \in BOOLEAN, increment \in BOOLEAN :
        (app.history # <<>> /\ LastLine = ForSource(initializer, condition, increment)) =>
            LET node == app.statements[2]
                loop == IF initializer = "none" THEN node ELSE node.statements[2]
                out == app.interpreter.out
            IN  /\ Len(app.statements) = 3
                /\ initializer # "none" =>
                       /\ node.kind = "Block"
                       /\ Len(node.statements) = 2
                       /\ node.statements[1].kind =
                              IF initializer = "var" THEN "Var" ELSE "Expression"
                /\ loop.kind = "While"
                /\ loop.condition.kind = IF condition THEN "Binary" ELSE "Literal"
                /\ ~condition => loop.condition.value = BoolV(TRUE)
                /\ IF increment
                   THEN /\ loop.body.kind = "Block"
                        /\ Len(loop.body.statements) = 2
                        /\ loop.body.statements[1].kind = "Print"
                        /\ loop.body.statements[2].kind = "Expression"
                        /\ loop.body.statements[2].expression.kind = "Assign"
                   ELSE loop.body.kind = "Print"
                /\ Interpreted
                /\ IF condition
                   THEN /\ LastStatementCompleted
                        /\ out = CASE initializer = "none" /\ increment -> <<"2", "3">>
                                   [] initializer = "none" /\ ~increment -> <<"2", "3", "3">>
                                   [] initializer = "var" /\ increment -> <<"1", "3", "1">>
                                   [] initializer = "var" /\ ~increment ->
                                          <<"1", "2", "3", "1">>
                                   [] initializer = "expression" /\ increment ->
                                          <<"1", "3", "4">>
                                   [] initializer = "expression" /\ ~increment ->
                                          <<"1", "2", "3", "3">>
                   ELSE /\ StatementRaised(2)
                        /\ out = <<"True">>
                        /\ DiagnosticMessages =
                               IF increment
                               THEN <<"Operands must be two numbers or two strings.">>
                               ELSE <<"Operands must be numbers">>
                        /\ GlobalValues["i"] =
                               IF initializer = "var" THEN NumV(1) ELSE BoolV(TRUE)

\* a loop with a declaration, a condition and an increment ran twice and the
\* global i was printed behind it
C27_Witness ==
    /\ app.history # <<>>
    /\ LastLine = ForSource("var", TRUE, TRUE)
    /\ app.interpreter.out = <<"1", "3", "1">>
    /\ app.statements[2].statements[2].body.statements[2].kind = "Expression"

(***************************************************************************)
(* Properties of return.                                                   *)
(***************************************************************************)
\* C28: a return in the body of a function, in a block, in an if branch, in
\* a while loop or in a block or an if statement in a while loop ends the
\* call: nothing that follows it in the block, the loop or the body is
\* executed, the call's value is the returned value, or nil when the return
\* has no value, and the calling block goes on with its own variable a and
\* completes; a body without a return runs to its end and the call's value
\* is nil.  No signal is left when the line ends and nothing is reported.
C28_ReturnEndsCall ==
    \A nest \in ReturnNests, value \in BOOLEAN :
        (app.history # <<>> /\ LastLine = ReturnNestSource(nest, value)) =>
            /\ app.interpreter.out =
                   (CASE nest = "none" -> <<"3">>
                      [] nest = "while block" -> <<"0">>
                      [] OTHER -> <<>>)
                   \o <<IF nest # "none" /\ value THEN "1" ELSE "nil", "2">>
            /\ LastStatementCompleted
            /\ app.interpreter.sig = "none"
            /\ app.interpreter.env = Globals
            /\ app.diagnostics = <<>>
            /\ app.status = "prompt"

\* a return with a value in an if statement in a while loop ended the call
C28_Witness ==
    /\ app.history # <<>>
    /\ LastLine = ReturnNestSource("while if", TRUE)
    /\ app.interpreter.out = <<"1", "2">>

(***************************************************************************)
(* Properties of the interpreter's environment pointer.                    *)
(***************************************************************************)
\* C29: when interpret has returned, with every statement completed or with
\* a runtime error raised at top level, in a block or in a called function,
\* before, in or after a class declaration, _environment is the globals
\* frame.  The frame of super that a class declaration with a superclass
\* pushes is left when the declaration ends: the variable declared behind
\* the declaration is not in it, no frame with super holds anything else,
\* and at top level the variable is a global.  The line raises exactly when
\* its superclass is no class or it holds nil + 1.
C29_EnvironmentIsGlobals ==
    /\ (Interpreted /\ app.status = "prompt") =>
           /\ app.interpreter.env = Globals
           /\ app.interpreter.sig = "none"
    /\ \A e \in DOMAIN app.interpreter.envs :
           "super" \in DOMAIN app.interpreter.envs[e].values =>
               DOMAIN app.interpreter.envs[e].values = {"super"}
    /\ \A place \in PointerPlaces, class \in PointerClasses, raising \in BOOLEAN :
           (app.history # <<>> /\ LastLine = PointerSource(place, class, raising)) =>
               /\ Interpreted /\ app.status = "prompt"
               /\ DiagnosticMessages =
                      CASE class = "number superclass" -> <<"Superclass must be a class.">>
                        [] class = "no superclass" -> <<"Undefined variable 'U'.">>
                        [] raising -> <<"Operands must be two numbers or two strings.">>
                        [] OTHER -> <<>>
               /\ (place = "top" /\ class \in {"none", "class", "subclass"}) =>
                      GlobalValues["z"] = NumV(1)
               /\ (class \in {"none", "class", "subclass"} /\ ~raising) =>
                      app.interpreter.out = <<"1">>

\* a runtime error was raised behind the declaration of a subclass in a
\* called function, and interpret returned with the globals frame
C29_Witness ==
    /\ app.history # <<>>
    /\ LastLine = PointerSource("call", "subclass", TRUE)
    /\ app.had_runtime_error
    /\ app.interpreter.env = Globals
    /\ \E e \in DOMAIN app.interpreter.envs :
           "super" \in DOMAIN app.interpreter.envs[e].values

(***************************************************************************)
(* Properties of the resolver on statements.                               *)
(***************************************************************************)
\* C30: a statement that the resolver resolves without raising leaves the
\* scope stack as deep as it was, every scope with the names and flags it
\* had, but for the name the statement declares, which is defined in the
\* innermost scope, and leaves _current_function and _current_class as they
\* were.  A statement list that a new resolver resolves without raising
\* leaves no scope, _current_function NONE and _current_class NONE, whatever
\* errors were reported.  The resolver raises for the class that inherits
\* from itself only.
C30_ScopesBalanced ==
    [][/\ (ppc' = "resolve statement" /\ resolver'.exc = "none") =>
              /\ Len(resolver'.scopes) = Len(resolver.scopes)
              /\ \A i \in DOMAIN resolver.scopes :
                     \A name \in DOMAIN resolver.scopes[i] \cup DOMAIN resolver'.scopes[i] :
                         /\ name \in DOMAIN resolver'.scopes[i]
                         /\ IF i = Len(resolver.scopes) /\ name \in DefinedName(stmts'[1])
                            THEN resolver'.scopes[i][name] = TRUE
                            ELSE /\ name \in DOMAIN resolver.scopes[i]
                                 /\ resolver'.scopes[i][name] = resolver.scopes[i][name]
              /\ resolver'.current_function = resolver.current_function
              /\ resolver'.current_class = resolver.current_class
       /\ (ppc' = "resolve list" /\ resolver'.exc = "none") =>
              /\ resolver'.scopes = <<>>
              /\ resolver'.current_function = "NONE"
              /\ resolver'.current_class = "NONE"
       /\ (ppc' \in BalanceOperations /\ resolver'.exc # "none") =>
              stmts' = Statements(SelfInheritSource)]_vars

\* a list with a block, a subclass and a super at top level was resolved
\* with two errors reported, and no scope is left
C30_Witness ==
    /\ ppc = "resolve list"
    /\ Len(stmts) = 4
    /\ Len(resolver.errors) = 2
    /\ resolver.exc = "none"
    /\ resolver.scopes = <<>>
    /\ DOMAIN resolver.locals # {}

=============================================================================
